---- MODULE Spec2Model ----
(***************************************************************************)
(* Risk-gated trade execution pipeline of RobinhoodCryptoBot.              *)
(*                                                                         *)
(* Three components are modelled, each with its own specifications:        *)
(*   SpecRisk      the app RiskManager (src/backend/app/risk_manager.py)   *)
(*   SpecBackend   the backend RiskManager driven by the backend           *)
(*                 TradingBot (src/backend/risk_manager.py,                *)
(*                 src/backend/trading_bot.py)                             *)
(*   SpecTrailing  the backend RiskManager's trailing stops, called        *)
(*                 directly on positions opened by manual trades           *)
(*   SpecRate      the live-mode rate limiter of the ExecutionModule       *)
(*                 (src/backend/app/execution_module.py); SpecRateFair     *)
(*                 adds that a sleeping coroutine is resumed               *)
(*                                                                         *)
(* Units.  Python floats are modelled as fixed-point integers: money and   *)
(* prices in cents, quantities in hundredths of a coin, fractions and      *)
(* confidences in percent.  The input sets are chosen so that every        *)
(* division of the code is exact in these units.                           *)
(***************************************************************************)
EXTENDS Integers, Sequences, FiniteSets, TLC

VARIABLES
    \* ---- app RiskManager (src/backend/app/risk_manager.py) ----
    today,            \* datetime.now().date(), as a day number
    last_reset_date,  \* RiskManager.last_reset_date
    daily_trades,     \* len(RiskManager.daily_trades); the code reads only the length
    daily_loss,       \* RiskManager.daily_loss, cents
    rm_op,            \* the last RiskManager operation that returned
    rm_call,          \* its arguments
    rm_result,        \* its return value
    stopped,          \* history: emergency_stop was called on the current calendar date
    disabled_seen,    \* history: get_risk_metrics reported trading_enabled=false on the current date
    \* ---- backend RiskManager and TradingBot (src/backend/risk_manager.py, trading_bot.py) ----
    bk_now,           \* datetime.now(), seconds
    bk_today,         \* datetime.now().date(), as a day number
    bk_last_reset_date, \* RiskManager.last_reset_date
    daily_losses,     \* RiskManager.daily_losses, cents
    bk_daily_trades,  \* RiskManager.daily_trades (a counter in the backend)
    open_positions,   \* RiskManager.open_positions: symbol -> position, NoPosition when absent
    trade_history,    \* RiskManager.trade_history: the number of records per symbol
    is_running,       \* TradingBot.is_running
    last_trade_time,  \* TradingBot.last_trade_time: symbol -> time, None when absent
    bk_op,            \* the last backend operation that returned
    bk_call,          \* its arguments
    bk_result,        \* its return value
    order_log,        \* history: per symbol, when the broker last accepted a market order of the
                      \* service and the shortest interval between two successive ones
    \* ---- backend StrategyEngine (src/backend/strategy_engine.py) ----
    active_signals,     \* StrategyEngine.active_signals: symbol -> analysis, NoSignal when absent
    last_analysis_time, \* StrategyEngine.last_analysis_time: symbol -> time, None when absent
    \* ---- live-mode ExecutionModule (src/backend/app/execution_module.py) ----
    rl_now,             \* time.time(), seconds
    credentials,        \* settings.robinhood_api_key / robinhood_private_key: valid, missing or malformed
    request_timestamps, \* ExecutionModule.request_timestamps
    sent_log,           \* history: the times of the HTTP requests actually sent, within the last window
    rl_pc,              \* per caller: where its request is (idle, backoff)
    rl_request,         \* per caller: the request it is making
    rl_result,          \* the outcome of the last request that returned
    \* ---- paper-mode ExecutionModule (src/backend/app/execution_module.py) ----
    paper_cash,         \* paper_portfolio["cash"], cents
    paper_positions,    \* paper_portfolio["positions"]: symbol -> quantity, None when the key is absent
    paper_total_value,  \* paper_portfolio["total_value"], cents
    paper_trades,       \* len(paper_trades)
    ex_op,              \* the last ExecutionModule operation that returned or raised
    ex_call,            \* its arguments
    ex_result,          \* the Trade it returned, or that it raised
    ex_prev,            \* history: the order before the last one, with the ledger it started from
    \* ---- app TradingBot (src/backend/app/trading_bot.py), live mode ----
    app_is_running,     \* TradingBot.is_running
    loop_pc,            \* where the start() task is: idle, cycle, analyze, placing, fetching, sleeping
    cycle_i,            \* index into self.symbols of the symbol being processed
    cycle_portfolio,    \* the portfolio fetched at the start of the cycle
    cycle_order,        \* the order the cycle is placing and recording
    manual_pc,          \* where the manual_trade call is: idle, placing
    manual_order,       \* the order the manual_trade call is placing
    bot_op,             \* the last TradingBot call that returned
    bot_result,         \* its return value
    cycles_begun,       \* history: the number of _trading_cycle calls begun
    manual_calls,       \* history: the number of manual_trade calls begun
    stop_mark,          \* history: since the last stop(), cycles_begun at that call and what was in flight
    orders_today,       \* history: the orders the bot has sent to the broker on the current date
    sleeping_loops,     \* the number of further start() tasks, all in their inter-cycle sleep
    \* ---- TradingBotMonitor (src/backend/monitoring.py) ----
    mon_now,               \* datetime.now() at the monitor, in health-check intervals (300 s)
    error_count,           \* TradingBotMonitor.error_count
    last_successful_cycle, \* TradingBotMonitor.last_successful_cycle, in health-check intervals
    restarts,              \* history: the number of restarts restart_bot has issued
    cap_reached            \* history: error_count has reached max_errors

riskVars == <<today, last_reset_date, daily_trades, daily_loss,
              rm_op, rm_call, rm_result, stopped, disabled_seen>>

backendVars == <<bk_now, bk_today, bk_last_reset_date, daily_losses, bk_daily_trades,
                 open_positions, trade_history, is_running, last_trade_time,
                 bk_op, bk_call, bk_result, order_log>>

strategyVars == <<active_signals, last_analysis_time>>

rateVars == <<rl_now, credentials, request_timestamps, sent_log, rl_pc, rl_request, rl_result>>

paperVars == <<paper_cash, paper_positions, paper_total_value, paper_trades,
               ex_op, ex_call, ex_result, ex_prev>>

botVars == <<app_is_running, loop_pc, cycle_i, cycle_portfolio, cycle_order,
             manual_pc, manual_order, bot_op, bot_result, cycles_begun, manual_calls,
             stop_mark>>

taskVars == <<sleeping_loops>>

orderVars == <<orders_today>>

monitorVars == <<mon_now, error_count, last_successful_cycle, restarts, cap_reached>>

vars == <<riskVars, backendVars, strategyVars, rateVars, paperVars, botVars, monitorVars,
          taskVars, orderVars>>

\* What the operations of one component leave alone
exceptRisk == <<backendVars, rateVars, paperVars, botVars, monitorVars, strategyVars, taskVars, orderVars>>
exceptBackend == <<riskVars, rateVars, paperVars, botVars, monitorVars, strategyVars, taskVars, orderVars>>
exceptRate == <<riskVars, backendVars, paperVars, botVars, monitorVars, strategyVars, taskVars, orderVars>>
exceptPaper == <<riskVars, backendVars, rateVars, botVars, monitorVars, strategyVars, taskVars, orderVars>>
exceptBot == <<backendVars, paperVars, monitorVars, strategyVars, taskVars, orderVars>>
\* the same, for the two steps of the bot that send an order
exceptBotOrders == <<backendVars, paperVars, monitorVars, strategyVars, taskVars>>
exceptMonitor == <<riskVars, rateVars, paperVars, botVars, strategyVars, taskVars, orderVars>>

Min(a, b) == IF a <= b THEN a ELSE b
Max(a, b) == IF a >= b THEN a ELSE b
Abs(a) == IF a < 0 THEN -a ELSE a

\* Python's None for an Optional[float]
None == -1

\* No arguments, or no return value
NoCall == [op |-> "none"]

(***************************************************************************)
(* Settings and RiskManager.__init__                                       *)
(***************************************************************************)
trading_budget == 10000
max_loss_per_trade == 2
daily_loss_limit == 10
max_trades_per_day == 20
max_position_size == 15
min_trade_amount == 500
min_confidence == 30
min_portfolio_pct == 50

\* self.trading_budget * self.daily_loss_limit
DailyLossLimitAmount == (trading_budget * daily_loss_limit) \div 100

(***************************************************************************)
(* Bounds of the model                                                     *)
(***************************************************************************)
MaxDay == 2
MaxTrades == 21
MaxDailyLoss == 1800

Symbols == {"dogecoin", "cardano"}
Signals == {"buy", "sell"}
Confidences == {20, 100}
PortfolioValues == {4000, 9400, 10000}
HeldQuantities == {0, 300, 5000}
Prices == {100}

Strategies ==
    [signal : Signals, confidence : Confidences, suggested_quantity : {None},
     stop_loss : {None}, take_profit : {None}]

Portfolios ==
    { [total_value |-> v, available_cash |-> v,
       positions |-> [s \in Symbols |-> IF s = "dogecoin" THEN h ELSE 0]] :
         v \in PortfolioValues \ {9400}, h \in HeldQuantities }

(***************************************************************************)
(* RiskManager._reset_daily_counters_if_needed                             *)
(***************************************************************************)
ResetNeeded == today > last_reset_date
TradesAfterReset == IF ResetNeeded THEN 0 ELSE daily_trades
LossAfterReset == IF ResetNeeded THEN 0 ELSE daily_loss
DateAfterReset == IF ResetNeeded THEN today ELSE last_reset_date

(***************************************************************************)
(* RiskManager.validate_trade, after the daily reset: a function of the    *)
(* counters and the arguments.                                             *)
(***************************************************************************)
Rejected(strategy, reason) ==
    [approved |-> FALSE, reason |-> reason, adjusted_quantity |-> 0,
     stop_loss |-> strategy.stop_loss, take_profit |-> strategy.take_profit]

MaxTradeValue(portfolio) ==
    Min((portfolio.available_cash * max_position_size) \div 100,
        (trading_budget * max_loss_per_trade) \div max_loss_per_trade)

SuggestedValue(strategy, portfolio) ==
    LET q == IF strategy.suggested_quantity = None \/ strategy.suggested_quantity = 0
             THEN 10 ELSE strategy.suggested_quantity
    IN (q * portfolio.total_value) \div 100

TradeValue(strategy, portfolio) ==
    Min(SuggestedValue(strategy, portfolio), MaxTradeValue(portfolio))

Truthy(x) == x # None /\ x # 0

AdjustedStopLoss(strategy, current_price) ==
    IF strategy.signal = "buy"
    THEN IF Truthy(strategy.stop_loss) /\ strategy.stop_loss >= current_price
         THEN (current_price * (100 - max_loss_per_trade)) \div 100
         ELSE strategy.stop_loss
    ELSE IF strategy.signal = "sell"
    THEN IF Truthy(strategy.stop_loss) /\ strategy.stop_loss <= current_price
         THEN (current_price * (100 + max_loss_per_trade)) \div 100
         ELSE strategy.stop_loss
    ELSE strategy.stop_loss

AdjustedTakeProfit(strategy, current_price) ==
    IF strategy.signal = "buy"
    THEN IF Truthy(strategy.take_profit) /\ strategy.take_profit <= current_price
         THEN (current_price * (100 + max_loss_per_trade * 2)) \div 100
         ELSE strategy.take_profit
    ELSE IF strategy.signal = "sell"
    THEN IF Truthy(strategy.take_profit) /\ strategy.take_profit >= current_price
         THEN (current_price * (100 - max_loss_per_trade * 2)) \div 100
         ELSE strategy.take_profit
    ELSE strategy.take_profit

\* mutant: the trade-count gate is off by one
TradeLimitReached_offByOne(trades) == trades > max_trades_per_day

\* len(self.daily_trades) >= self.max_trades_per_day
TradeLimitReached(trades) == trades >= max_trades_per_day

\* self.daily_loss >= (self.trading_budget * self.daily_loss_limit)
LossLimitReached(loss) == loss >= DailyLossLimitAmount

\* strategy.confidence < 0.3
ConfidenceTooLow(strategy) == strategy.confidence < min_confidence

\* adjusted_quantity = trade_value / current_price
RequestedQuantity(strategy, portfolio, current_price) ==
    (TradeValue(strategy, portfolio) * 100) \div current_price

\* mutant: the sell quantity is not clamped to the held quantity
SellQuantity_noClamp(quantity, current_position) == quantity

\* if adjusted_quantity > current_position: adjusted_quantity = current_position
SellQuantity(quantity, current_position) ==
    IF quantity > current_position THEN current_position ELSE quantity

validate_trade(trades, loss, strategy, portfolio, symbol, current_price) ==
    LET trade_value == TradeValue(strategy, portfolio)
        quantity == RequestedQuantity(strategy, portfolio, current_price)
        current_position == portfolio.positions[symbol]
        adjusted_quantity ==
            IF strategy.signal = "sell"
            THEN SellQuantity(quantity, current_position) ELSE quantity
    IN  IF TradeLimitReached(trades)
        THEN Rejected(strategy, "Daily trade limit reached")
        ELSE IF LossLimitReached(loss)
        THEN Rejected(strategy, "Daily loss limit reached")
        ELSE IF ConfidenceTooLow(strategy)
        THEN Rejected(strategy, "Strategy confidence too low")
        ELSE IF trade_value < min_trade_amount
        THEN Rejected(strategy, "Trade value too small")
        ELSE IF strategy.signal = "buy" /\ trade_value > portfolio.available_cash
        THEN Rejected(strategy, "Insufficient funds")
        ELSE IF strategy.signal = "sell" /\ quantity > current_position
                /\ adjusted_quantity <= 0
        THEN Rejected(strategy, "No position to sell")
        ELSE [approved |-> TRUE, reason |-> "Trade approved",
              adjusted_quantity |-> adjusted_quantity,
              stop_loss |-> AdjustedStopLoss(strategy, current_price),
              take_profit |-> AdjustedTakeProfit(strategy, current_price)]

(***************************************************************************)
(* RiskManager._calculate_risk_level and RiskManager._is_trading_enabled   *)
(***************************************************************************)
\* (self.daily_loss / self.trading_budget) * 100 >= 8, cross-multiplied
calculate_risk_level(loss) ==
    IF loss * 100 >= 8 * trading_budget THEN "HIGH"
    ELSE IF loss * 100 >= 5 * trading_budget THEN "MEDIUM"
    ELSE "LOW"

is_trading_enabled(trades, loss, portfolio) ==
    IF TradeLimitReached(trades) THEN FALSE
    ELSE IF LossLimitReached(loss) THEN FALSE
    ELSE IF portfolio.total_value * 100 < trading_budget * min_portfolio_pct THEN FALSE
    ELSE TRUE

(***************************************************************************)
(* Backend RiskManager (src/backend/risk_manager.py) and TradingBot        *)
(* (src/backend/trading_bot.py): settings                                  *)
(***************************************************************************)
account_balance == 10000
max_risk_per_trade == 2
bk_daily_loss_limit == 10
atr_multiplier == 2
max_position_pct == 10
bk_min_trade_amount == 500
min_trade_interval == 300
cycle_interval == 180

\* self.account_balance * 0.1
MaxPositionValue == (account_balance * max_position_pct) \div 100

\* self.account_balance * self.daily_loss_limit
BkDailyLossLimitAmount == (account_balance * bk_daily_loss_limit) \div 100

(***************************************************************************)
(* Bounds of the backend model                                             *)
(***************************************************************************)
MaxNow == 360
MaxBkDay == 1

BkSymbols == {"BTC", "ETH"}
Sides == {"buy", "sell"}
OpenPrices == {10000}
OpenAtrs == {1000}
TrailPrices == {5000, 10000}
TrailAtrs == {500, 1000}
ManualAmounts == {400, 1000, 1100}

NoPosition == [side |-> "none"]

\* The orders of the service at the broker.  Market orders the broker accepted
\* (robinhood_client.create_market_order returned): per symbol the time of the
\* last one and the shortest interval between two successive ones, None while
\* there are fewer.  Stop-loss orders (create_stop_loss_order): per symbol the
\* stop price of the order sent with the last trade of a cycle, None when none
\* was sent, and whether the broker has executed it.
NoOrders ==
    [s \in BkSymbols |-> [last |-> None, gap |-> None,
                           stop_price |-> None, stop_filled |-> FALSE]]

LoggedOrder(log, symbol, now) ==
    LET last == log[symbol].last
        gap == log[symbol].gap
    IN  [log EXCEPT ![symbol].last = now,
                    ![symbol].gap = IF last = None THEN gap
                                    ELSE IF gap = None THEN now - last
                                    ELSE Min(gap, now - last)]

\* _execute_trade, lines 187-195: the stop-loss order on the opposite side,
\* good till cancelled (a failure to place it is caught and logged: the order
\* then never executes)
LoggedStopLoss(log, symbol, stop_price) ==
    IF stop_price # 0
    THEN [log EXCEPT ![symbol].stop_price = stop_price, ![symbol].stop_filled = FALSE]
    ELSE log

\* The (price, ATR) pair the data manager supplies for a symbol; NoMark when
\* the price or the history is unavailable.
\* analyze_market's empty result {}, and an absent entry of active_signals
NoSignal == [action |-> "none", strength |-> 0, confidence |-> 0]

NoMark == [current_price |-> None, atr |-> None]
Marks == [current_price : OpenPrices, atr : OpenAtrs] \cup {NoMark}

(***************************************************************************)
(* RiskManager.calculate_atr_stop_loss                                     *)
(***************************************************************************)
calculate_atr_stop_loss(current_price, atr, side) ==
    IF side = "buy"
    THEN current_price - (atr * atr_multiplier)
    ELSE current_price + (atr * atr_multiplier)

(***************************************************************************)
(* RiskManager.calculate_position_size, after reset_daily_limits;          *)
(* hundredths of a coin                                                    *)
(***************************************************************************)
\* lines 57-61: the stop distance the size is computed from
StopLossDistance(entry_price, stop_loss_price, atr) ==
    LET raw_distance == Abs(entry_price - stop_loss_price)
    IN  IF raw_distance * 2 < atr THEN atr * atr_multiplier ELSE raw_distance

\* the method on a RiskManager constructed with the given account balance
PositionSize(balance, losses, entry_price, stop_loss_price, atr) ==
    LET risk_amount == (balance * max_risk_per_trade) \div 100
        stop_loss_distance == StopLossDistance(entry_price, stop_loss_price, atr)
        position_size ==
            IF stop_loss_distance > 0
            THEN (risk_amount * 100) \div stop_loss_distance ELSE 0
        max_position_value == (balance * max_position_pct) \div 100
        position_value == (position_size * entry_price) \div 100
        capped ==
            IF position_value > max_position_value
            THEN (max_position_value * 100) \div entry_price ELSE position_size
    IN  IF losses >= (balance * bk_daily_loss_limit) \div 100 THEN 0
        ELSE IF position_value < bk_min_trade_amount
        THEN IF bk_min_trade_amount <= max_position_value
             THEN (bk_min_trade_amount * 100) \div entry_price ELSE 0
        ELSE capped

calculate_position_size(losses, entry_price, stop_loss_price, atr) ==
    PositionSize(account_balance, losses, entry_price, stop_loss_price, atr)

(***************************************************************************)
(* RiskManager.validate_trade (backend), after reset_daily_limits          *)
(***************************************************************************)
\* mutant: the open-position check is missing
AlreadyOpen_never(positions, symbol) == FALSE

\* if symbol in self.open_positions
AlreadyOpen(positions, symbol) == positions[symbol] # NoPosition

bk_validate_trade(losses, positions, symbol, side, quantity, price) ==
    LET position_value == (quantity * price) \div 100
    IN  IF losses >= BkDailyLossLimitAmount
        THEN [ok |-> FALSE, reason |-> "Daily loss limit exceeded"]
        ELSE IF position_value > MaxPositionValue
        THEN [ok |-> FALSE, reason |-> "Position size too large"]
        ELSE IF AlreadyOpen(positions, symbol)
        THEN [ok |-> FALSE, reason |-> "Already have open position"]
        ELSE IF position_value < bk_min_trade_amount
        THEN [ok |-> FALSE, reason |-> "Position size too small"]
        ELSE [ok |-> TRUE, reason |-> "Trade validated"]

(***************************************************************************)
(* RiskManager.record_trade (backend) with trade_type = "open", the only   *)
(* trade type the TradingBot passes                                        *)
(***************************************************************************)
\* (the entry_time the code also stores is never read and is left out)
OpenedPosition(side, quantity, price) ==
    [side |-> side, quantity |-> quantity, entry_price |-> price, stop_loss |-> None]

\* reset_daily_limits
BkResetNeeded == bk_today > bk_last_reset_date
BkLossesAfterReset == IF BkResetNeeded THEN 0 ELSE daily_losses
BkTradesAfterReset == IF BkResetNeeded THEN 0 ELSE bk_daily_trades
BkDateAfterReset == IF BkResetNeeded THEN bk_today ELSE bk_last_reset_date

(***************************************************************************)
(* RiskManager.update_trailing_stop: the position after the call and the   *)
(* value returned                                                          *)
(***************************************************************************)
\* mutant: the new stop is stored whichever way it moves
StopMoves_always(side, new_stop, current_stop) == TRUE

\* side == 'buy' and new_stop > current_stop, or
\* side == 'sell' and new_stop < current_stop
StopMoves(side, new_stop, current_stop) ==
    \/ side = "buy" /\ new_stop > current_stop
    \/ side = "sell" /\ new_stop < current_stop

TrailedPosition(position, current_price, atr) ==
    LET new_stop == calculate_atr_stop_loss(current_price, atr, position.side)
    IN  IF position = NoPosition THEN position
        ELSE IF position.stop_loss = None
        THEN [position EXCEPT !.stop_loss = new_stop]
        ELSE IF StopMoves(position.side, new_stop, position.stop_loss)
        THEN [position EXCEPT !.stop_loss = new_stop]
        ELSE position

update_trailing_stop(position, current_price, atr) ==
    IF position = NoPosition THEN None
    ELSE TrailedPosition(position, current_price, atr).stop_loss

(***************************************************************************)
(* Initial state: backend RiskManager.__init__ and TradingBot.__init__     *)
(***************************************************************************)
InitBackend ==
    /\ bk_now = 0
    /\ bk_today = 0
    /\ bk_last_reset_date = 0
    /\ daily_losses = 0
    /\ bk_daily_trades = 0
    /\ open_positions = [s \in BkSymbols |-> NoPosition]
    /\ trade_history = [s \in BkSymbols |-> 0]
    /\ is_running = FALSE
    /\ last_trade_time = [s \in BkSymbols |-> None]
    /\ bk_op = "init"
    /\ bk_call = NoCall
    /\ bk_result = NoCall
    /\ order_log = NoOrders
    /\ active_signals = [s \in BkSymbols |-> NoSignal]
    /\ last_analysis_time = [s \in BkSymbols |-> None]

(***************************************************************************)
(* Paper-mode ExecutionModule (src/backend/app/execution_module.py):       *)
(* _place_paper_order on the in-memory ledger                              *)
(***************************************************************************)
\* execution_price = price or 50000.0, in cents
default_paper_price == 5000000

(***************************************************************************)
(* Bounds of the paper-ledger model                                        *)
(***************************************************************************)
MaxPaperTrades == 3

OrderTypes == {"market", "limit"}
PaperQuantities == {100, 300}

\* The (order type, price) pairs the model submits
PaperPricings == { <<"market", None>>, <<"market", 2000>>, <<"limit", None>> }

\* self.paper_portfolio["positions"].get(symbol, 0)
PositionOf(positions, symbol) ==
    IF positions[symbol] = None THEN 0 ELSE positions[symbol]

\* lines 74-77: the price at which the order executes (None for a limit order
\* that carries no price)
ExecutionPrice(order_type, price) ==
    IF order_type = "market"
    THEN IF Truthy(price) THEN price ELSE default_paper_price
    ELSE price

\* quantity * execution_price, cents (hundredths of a coin times whole dollars)
OrderValue(quantity, execution_price) == quantity * (execution_price \div 100)

\* mutant: every buy is affordable
BuyFills_always(cash, cost) == TRUE

\* if self.paper_portfolio["cash"] >= cost
BuyFills(cash, cost) == cash >= cost

\* mutant: a sell of the whole position is refused
SellFills_strict(current_position, quantity) == current_position > quantity

\* if current_position >= quantity
SellFills(current_position, quantity) == current_position >= quantity

\* lines 114-116: cash plus every position valued at this order's price
RECURSIVE PositionsValue(_, _, _)
PositionsValue(symbols, positions, execution_price) ==
    IF symbols = {} THEN 0
    ELSE LET s == CHOOSE x \in symbols : TRUE
         IN  (IF positions[s] = None THEN 0
              ELSE OrderValue(positions[s], execution_price))
             + PositionsValue(symbols \ {s}, positions, execution_price)

\* The Trade built at lines 79-90, with the status the order ends with
PaperTrade(symbol, side, order_type, quantity, price, status) ==
    [raised |-> FALSE, symbol |-> symbol, side |-> side, order_type |-> order_type,
     quantity |-> quantity, price |-> price, status |-> status,
     filled_price |-> ExecutionPrice(order_type, price), filled_quantity |-> quantity]

\* The order raised TypeError (a product with a None price)
PaperRaised == [raised |-> TRUE]

\* ExecutionModule._place_paper_order: the ledger after the call and the
\* Trade returned.  A limit order without a price has execution_price None:
\* the first product with it raises, after whatever was already assigned.
place_paper_order(cash, positions, total_value, trades, symbol, side, order_type, quantity, price) ==
    LET execution_price == ExecutionPrice(order_type, price)
        current_position == PositionOf(positions, symbol)
        fills == IF side = "buy"
                 THEN BuyFills(cash, OrderValue(quantity, execution_price))
                 ELSE SellFills(current_position, quantity)
        cash1 == IF ~fills THEN cash
                 ELSE IF side = "buy" THEN cash - OrderValue(quantity, execution_price)
                 ELSE cash + OrderValue(quantity, execution_price)
        positions1 ==
            IF ~fills THEN positions
            ELSE IF side = "buy"
            THEN [positions EXCEPT ![symbol] = current_position + quantity]
            ELSE [positions EXCEPT ![symbol] = current_position - quantity]
        unchanged == [cash |-> cash, positions |-> positions,
                      total_value |-> total_value, trades |-> trades,
                      trade |-> PaperRaised]
    IN  IF execution_price = None
        THEN IF side = "buy" \/ SellFills(current_position, quantity)
             THEN unchanged
             ELSE IF \A s \in Symbols : positions[s] = None
             THEN [cash |-> cash, positions |-> positions, total_value |-> cash,
                   trades |-> trades + 1,
                   trade |-> PaperTrade(symbol, side, order_type, quantity, price,
                                        "rejected")]
             ELSE [unchanged EXCEPT !.total_value = cash]
        ELSE [cash |-> cash1, positions |-> positions1,
              total_value |-> cash1 + PositionsValue(Symbols, positions1, execution_price),
              trades |-> trades + 1,
              trade |-> PaperTrade(symbol, side, order_type, quantity, price,
                                   IF fills THEN "filled" ELSE "rejected")]

(***************************************************************************)
(* Live-mode ExecutionModule (src/backend/app/execution_module.py)         *)
(***************************************************************************)
rate_limit_requests == 100
rate_limit_window == 60
backoff_delay == 1

(***************************************************************************)
(* Bounds of the rate-limiter model                                        *)
(***************************************************************************)
MaxRateNow == 62
MaxSent == 101

\* The coroutines that use the module: the trading loop and an API handler.
Callers == {"cycle", "manual"}
RequestKinds == {"place_order", "get_portfolio", "get_order_status"}

\* settings.robinhood_api_key / robinhood_private_key: a key pair that signs,
\* no keys at all, or keys that nacl cannot sign with.
Credentials == {"valid", "missing", "malformed"}

\* ts for ts in timestamps if current_time - ts < self.rate_limit_window
WithinWindow(timestamps, current_time) ==
    SelectSeq(timestamps, LAMBDA ts : current_time - ts < rate_limit_window)

\* ExecutionModule._check_rate_limit: the value returned and the list stored
check_rate_limit(timestamps, current_time) ==
    LET kept == WithinWindow(timestamps, current_time)
    IN  IF Len(kept) < rate_limit_requests
        THEN [ok |-> TRUE, timestamps |-> Append(kept, current_time)]
        ELSE [ok |-> FALSE, timestamps |-> kept]

\* ExecutionModule._create_auth_headers returns (it raises when signing fails)
Signs(creds) == creds = "valid"

\* _place_real_order returns REJECTED before the rate check without both keys
RejectedUnchecked(kind, creds) == kind = "place_order" /\ creds = "missing"

\* mutant: the backoff does not wait
BackoffWake_noDelay(checked_at) == checked_at

\* await asyncio.sleep(1): the time at which the caller resumes
BackoffWake(checked_at) == checked_at + backoff_delay

\* The requests sent within the window that ends now, after one more is sent
\* (or not) now.
SentLog(log, current_time, sends) ==
    IF sends THEN Append(WithinWindow(log, current_time), current_time)
    ELSE WithinWindow(log, current_time)

\* ExecutionModule.__init__ with the given settings
InitExecution(creds) ==
    /\ rl_now = 0
    /\ credentials = creds
    /\ request_timestamps = <<>>
    /\ sent_log = <<>>
    /\ rl_pc = [c \in Callers |-> "idle"]
    /\ rl_request = [c \in Callers |-> NoCall]
    /\ rl_result = NoCall
    /\ paper_cash = trading_budget
    /\ paper_positions = [s \in Symbols |-> None]
    /\ paper_total_value = trading_budget
    /\ paper_trades = 0
    /\ ex_op = "init"
    /\ ex_call = NoCall
    /\ ex_result = NoCall
    /\ ex_prev = NoCall

(***************************************************************************)
(* Initial state: TradingBotMonitor.__init__                               *)
(***************************************************************************)
InitMonitor ==
    /\ mon_now = 0
    /\ error_count = 0
    /\ last_successful_cycle = 0
    /\ restarts = 0
    /\ cap_reached = FALSE

(***************************************************************************)
(* Initial state: TradingBot.__init__ (app)                                *)
(***************************************************************************)
InitTradingBot ==
    /\ app_is_running = FALSE
    /\ loop_pc = "idle"
    /\ cycle_i = 0
    /\ cycle_portfolio = NoCall
    /\ cycle_order = NoCall
    /\ manual_pc = "idle"
    /\ manual_order = NoCall
    /\ bot_op = "init"
    /\ bot_result = NoCall
    /\ cycles_begun = 0
    /\ manual_calls = 0
    /\ stop_mark = NoCall
    /\ sleeping_loops = 0

(***************************************************************************)
(* Initial state: RiskManager.__init__                                     *)
(***************************************************************************)
InitRiskManager ==
    /\ today = 0
    /\ last_reset_date = 0
    /\ daily_trades = 0
    /\ daily_loss = 0
    /\ rm_op = "init"
    /\ rm_call = NoCall
    /\ rm_result = NoCall
    /\ stopped = FALSE
    /\ disabled_seen = FALSE
    /\ orders_today = 0

(***************************************************************************)
(* The calendar date advances (midnight passes).                           *)
(***************************************************************************)
DayRollover ==
    /\ today < MaxDay
    /\ today' = today + 1
    /\ stopped' = FALSE
    /\ disabled_seen' = FALSE
    /\ orders_today' = 0
    /\ UNCHANGED <<last_reset_date, daily_trades, daily_loss, rm_op, rm_call, rm_result>>
    /\ UNCHANGED <<backendVars, rateVars, paperVars, botVars, monitorVars, strategyVars,
                   taskVars>>

(***************************************************************************)
(* RiskManager.validate_trade                                              *)
(***************************************************************************)
ValidateStrategy(strategy) ==
    \E portfolio \in Portfolios, symbol \in Symbols, current_price \in Prices :
        /\ last_reset_date' = DateAfterReset
        /\ daily_trades' = TradesAfterReset
        /\ daily_loss' = LossAfterReset
        /\ rm_op' = "validate_trade"
        /\ rm_call' = [strategy |-> strategy, portfolio |-> portfolio,
                       symbol |-> symbol, current_price |-> current_price]
        /\ rm_result' = validate_trade(TradesAfterReset, LossAfterReset,
                                       strategy, portfolio, symbol, current_price)
        /\ UNCHANGED <<today, stopped, disabled_seen>>
        /\ UNCHANGED exceptRisk

ValidateTrade == \E strategy \in Strategies : ValidateStrategy(strategy)

\* validate_trade on strategies that carry a stop-loss and a take-profit:
\* absent, zero, below, at and above the current price
StopLevels == {None, 0, 50, 100, 150}

StopStrategies ==
    [signal : Signals, confidence : {100}, suggested_quantity : {None},
     stop_loss : StopLevels, take_profit : StopLevels]

ValidateStops == \E strategy \in StopStrategies : ValidateStrategy(strategy)

\* validate_trade on trades of several sizes (the fraction of the portfolio a
\* strategy suggests or a manual trade asks for, in percent) and on portfolios
\* with and without cash, whose value is the cash plus the dogecoin held at the
\* current price
GateQuantities == {None, 20, 100}

SizedStrategies ==
    [signal : Signals, confidence : Confidences, suggested_quantity : GateQuantities,
     stop_loss : {None}, take_profit : {None}]

GatePortfolios ==
    { [total_value |-> c + (h * p) \div 100, available_cash |-> c,
       positions |-> [s \in Symbols |-> IF s = "dogecoin" THEN h ELSE 0]] :
         c \in {0, 4000, 10000}, h \in HeldQuantities, p \in Prices }

ValidateSizedTrade ==
    \E strategy \in SizedStrategies, portfolio \in GatePortfolios,
       symbol \in Symbols, current_price \in Prices :
        /\ last_reset_date' = DateAfterReset
        /\ daily_trades' = TradesAfterReset
        /\ daily_loss' = LossAfterReset
        /\ rm_op' = "validate_trade"
        /\ rm_call' = [strategy |-> strategy, portfolio |-> portfolio,
                       symbol |-> symbol, current_price |-> current_price]
        /\ rm_result' = validate_trade(TradesAfterReset, LossAfterReset,
                                       strategy, portfolio, symbol, current_price)
        /\ UNCHANGED <<today, stopped, disabled_seen>>
        /\ UNCHANGED exceptRisk

(***************************************************************************)
(* RiskManager.record_trade                                                *)
(***************************************************************************)
RecordedLoss(loss, portfolio_value_before, portfolio_value_after) ==
    LET pnl == portfolio_value_after - portfolio_value_before
    IN IF pnl < 0 THEN loss + Abs(pnl) ELSE loss

RecordTrade ==
    \E portfolio_value_before \in PortfolioValues,
       portfolio_value_after \in PortfolioValues :
        /\ TradesAfterReset < MaxTrades
        /\ RecordedLoss(LossAfterReset, portfolio_value_before,
                        portfolio_value_after) <= MaxDailyLoss
        /\ last_reset_date' = DateAfterReset
        /\ daily_trades' = TradesAfterReset + 1
        /\ daily_loss' = RecordedLoss(LossAfterReset, portfolio_value_before,
                                      portfolio_value_after)
        /\ rm_op' = "record_trade"
        /\ rm_call' = [portfolio_value_before |-> portfolio_value_before,
                       portfolio_value_after |-> portfolio_value_after]
        /\ rm_result' = NoCall
        /\ UNCHANGED <<today, stopped, disabled_seen>>
        /\ UNCHANGED exceptRisk

(***************************************************************************)
(* RiskManager.get_risk_metrics                                            *)
(***************************************************************************)
get_risk_metrics(trades, loss, portfolio) ==
    [daily_trades_count |-> trades,
     daily_loss |-> loss,
     risk_level |-> calculate_risk_level(loss),
     trading_enabled |-> is_trading_enabled(trades, loss, portfolio)]

GetRiskMetrics ==
    \E portfolio \in Portfolios :
        /\ last_reset_date' = DateAfterReset
        /\ daily_trades' = TradesAfterReset
        /\ daily_loss' = LossAfterReset
        /\ rm_op' = "get_risk_metrics"
        /\ rm_call' = [portfolio |-> portfolio]
        /\ rm_result' = get_risk_metrics(TradesAfterReset, LossAfterReset, portfolio)
        /\ disabled_seen' = (disabled_seen \/ ~rm_result'.trading_enabled)
        /\ UNCHANGED <<today, stopped>>
        /\ UNCHANGED exceptRisk

(***************************************************************************)
(* RiskManager.emergency_stop: no daily reset is performed here            *)
(***************************************************************************)
emergency_stop(loss) == DailyLossLimitAmount

EmergencyStop ==
    /\ daily_loss' = emergency_stop(daily_loss)
    /\ rm_op' = "emergency_stop"
    /\ rm_call' = NoCall
    /\ rm_result' = [status |-> "emergency_stop_activated", trading_disabled |-> TRUE]
    /\ stopped' = TRUE
    /\ UNCHANGED <<today, last_reset_date, daily_trades, disabled_seen>>
    /\ UNCHANGED exceptRisk

InitRisk == InitRiskManager /\ InitBackend /\ InitExecution("valid") /\ InitTradingBot /\ InitMonitor

NextRisk ==
    \/ DayRollover
    \/ ValidateTrade
    \/ RecordTrade
    \/ GetRiskMetrics
    \/ EmergencyStop

SpecRisk == InitRisk /\ [][NextRisk]_vars

NextGate ==
    \/ DayRollover
    \/ EmergencyStop
    \/ GetRiskMetrics
    \/ ValidateSizedTrade

SpecGate == InitRisk /\ [][NextGate]_vars

(***************************************************************************)
(* get_risk_metrics on a RiskManager built with a configured               *)
(* settings.daily_loss_limit (percent) and holding a given daily_loss      *)
(***************************************************************************)
ConfiguredLimits == {2, 5, 10, 20}
ConfiguredLosses == { 50 * k : k \in 0..40 }

\* self.daily_loss >= (self.trading_budget * self.daily_loss_limit)
LossLimitReachedAt(limit, loss) == loss * 100 >= trading_budget * limit

RiskLevelConfigured ==
    \E limit \in ConfiguredLimits, loss \in ConfiguredLosses :
        /\ rm_op' = "risk_level"
        /\ rm_call' = [daily_loss_limit |-> limit, daily_loss |-> loss]
        /\ rm_result' = [risk_level |-> calculate_risk_level(loss),
                         loss_limit_reached |-> LossLimitReachedAt(limit, loss)]
        /\ UNCHANGED <<today, last_reset_date, daily_trades, daily_loss,
                       stopped, disabled_seen>>
        /\ UNCHANGED exceptRisk

NextLevels == RiskLevelConfigured

SpecLevels == InitRisk /\ [][NextLevels]_vars

NextStops ==
    \/ DayRollover
    \/ ValidateStops

SpecStops == InitRisk /\ [][NextStops]_vars

(***************************************************************************)
(* Backend: time passes between operations                                 *)
(***************************************************************************)
BackendTick ==
    /\ bk_now + cycle_interval <= MaxNow
    /\ bk_now' = bk_now + cycle_interval
    /\ UNCHANGED <<bk_today, bk_last_reset_date, daily_losses, bk_daily_trades,
                   open_positions, trade_history, is_running, last_trade_time,
                   bk_op, bk_call, bk_result, order_log>>
    /\ UNCHANGED exceptBackend

BackendDayRollover ==
    /\ bk_today < MaxBkDay
    /\ bk_today' = bk_today + 1
    /\ UNCHANGED <<bk_now, bk_last_reset_date, daily_losses, bk_daily_trades,
                   open_positions, trade_history, is_running, last_trade_time,
                   bk_op, bk_call, bk_result, order_log>>
    /\ UNCHANGED exceptBackend

(***************************************************************************)
(* TradingBot.start and TradingBot.stop (backend)                          *)
(***************************************************************************)
BotStart ==
    \E connected \in BOOLEAN :
        /\ is_running' = (is_running \/ connected)
        /\ bk_op' = "start"
        /\ bk_call' = NoCall
        /\ bk_result' = [status |-> IF connected THEN "success" ELSE "error"]
        /\ UNCHANGED <<bk_now, bk_today, bk_last_reset_date, daily_losses, bk_daily_trades,
                       open_positions, trade_history, last_trade_time, order_log>>
        /\ UNCHANGED exceptBackend

BotStop ==
    /\ is_running' = FALSE
    /\ bk_op' = "stop"
    /\ bk_call' = NoCall
    /\ bk_result' = [status |-> "success"]
    /\ UNCHANGED <<bk_now, bk_today, bk_last_reset_date, daily_losses, bk_daily_trades,
                   open_positions, trade_history, last_trade_time, order_log>>
    /\ UNCHANGED exceptBackend

(***************************************************************************)
(* TradingBot.manual_trade (backend)                                       *)
(***************************************************************************)
\* create_market_order(symbol, side, amount): the quote amount the quantity was derived from
BkSubmittedAmount(amount, quantity) == amount

ManualTrade ==
    \E symbol \in BkSymbols, side \in Sides, amount \in ManualAmounts,
       current_price \in OpenPrices \cup {None}, order_ok \in BOOLEAN :
        LET quantity == (amount * 100) \div current_price
            validation == bk_validate_trade(BkLossesAfterReset, open_positions,
                                            symbol, side, quantity, current_price)
            recorded == current_price # None /\ validation.ok /\ order_ok
        IN  /\ bk_op' = "manual_trade"
            /\ bk_call' = NoCall
            /\ bk_result' =
                 IF current_price = None
                 THEN [status |-> "error", message |-> "Unable to get current price",
                       approved |-> FALSE, reason |-> "", quantity |-> None,
                       price |-> None, submitted |-> None]
                 ELSE IF ~validation.ok
                 THEN [status |-> "error", message |-> validation.reason,
                       approved |-> FALSE, reason |-> validation.reason,
                       quantity |-> quantity, price |-> current_price,
                       submitted |-> None]
                 ELSE IF ~order_ok
                 THEN [status |-> "error", message |-> "order failed",
                       approved |-> TRUE, reason |-> validation.reason,
                       quantity |-> quantity, price |-> current_price,
                       submitted |-> BkSubmittedAmount(amount, quantity)]
                 ELSE [status |-> "success", message |-> "",
                       approved |-> TRUE, reason |-> validation.reason,
                       quantity |-> quantity, price |-> current_price,
                       submitted |-> BkSubmittedAmount(amount, quantity)]
            /\ IF current_price = None
               THEN UNCHANGED <<bk_last_reset_date, daily_losses, bk_daily_trades>>
               ELSE /\ bk_last_reset_date' = BkDateAfterReset
                    /\ daily_losses' = BkLossesAfterReset
                    /\ bk_daily_trades' = BkTradesAfterReset + (IF recorded THEN 1 ELSE 0)
            /\ open_positions' =
                 IF recorded
                 THEN [open_positions EXCEPT
                         ![symbol] = OpenedPosition(side, quantity, current_price)]
                 ELSE open_positions
            /\ trade_history' =
                 IF recorded
                 THEN [trade_history EXCEPT ![symbol] = @ + 1]
                 ELSE trade_history
            /\ order_log' =
                 IF recorded THEN LoggedOrder(order_log, symbol, bk_now) ELSE order_log
            /\ UNCHANGED <<bk_now, bk_today, is_running, last_trade_time>>
            /\ UNCHANGED exceptBackend

(***************************************************************************)
(* RiskManager.update_trailing_stop (backend), called directly             *)
(***************************************************************************)
UpdateTrailingStop ==
    \E symbol \in BkSymbols, current_price \in TrailPrices, atr \in TrailAtrs :
        /\ bk_op' = "update_trailing_stop"
        /\ bk_call' = [symbol |-> symbol, current_price |-> current_price, atr |-> atr]
        /\ bk_result' = update_trailing_stop(open_positions[symbol], current_price, atr)
        /\ open_positions' =
             [open_positions EXCEPT
                ![symbol] = TrailedPosition(open_positions[symbol], current_price, atr)]
        /\ UNCHANGED <<bk_now, bk_today, bk_last_reset_date, daily_losses, bk_daily_trades,
                       trade_history, is_running, last_trade_time, order_log>>
        /\ UNCHANGED exceptBackend

(***************************************************************************)
(* TradingBot.execute_trading_cycle (backend).  The cycle has no real      *)
(* suspension point (the broker client and the data manager are            *)
(* synchronous), so it runs as one step.                                   *)
(***************************************************************************)
\* What StrategyEngine.get_trading_signals returns: actionable signals for
\* distinct symbols, in order of strength.
TradingSignals ==
    [symbol : BkSymbols, action : Sides, current_price : OpenPrices, atr : OpenAtrs]

SignalLists ==
    {<<>>} \cup { <<a>> : a \in TradingSignals }
           \cup { <<p[1], p[2]>> :
                     p \in { q \in TradingSignals \X TradingSignals :
                               q[1].symbol # q[2].symbol } }

\* StrategyEngine._combine_signals: risk_metrics.position_size of a signal
SignalPositionSize(signal, losses) ==
    calculate_position_size(
        losses, signal.current_price,
        calculate_atr_stop_loss(signal.current_price, signal.atr, signal.action),
        signal.atr)

\* StrategyEngine.should_execute_trade
should_execute_trade(signal, losses, positions) ==
    LET position_size == SignalPositionSize(signal, losses)
    IN  /\ signal.current_price > 0
        /\ position_size > 0
        /\ bk_validate_trade(losses, positions, signal.symbol, signal.action,
                             position_size, signal.current_price).ok

\* TradingBot._can_trade_symbol
can_trade_symbol(times, symbol, now) ==
    \/ times[symbol] = None
    \/ now - times[symbol] >= min_trade_interval

\* should_execute_trade and _can_trade_symbol return booleans and
\* _execute_trade catches what the order raises: nothing a signal does reaches
\* the handler around the cycle
BkCycleAborts(failed) == FALSE

\* One iteration of the loop over the signals, with TradingBot._execute_trade;
\* st carries the fields the loop updates.
ExecuteSignal(signal, failing, losses, now, st) ==
    LET position_size == SignalPositionSize(signal, losses)
        quote_amount == (position_size * signal.current_price) \div 100
        executed ==
            /\ should_execute_trade(signal, losses, st.positions)
            /\ can_trade_symbol(st.times, signal.symbol, now)
            /\ quote_amount >= bk_min_trade_amount
            /\ signal.symbol \notin failing
    IN  IF executed
        THEN [positions |-> [st.positions EXCEPT ![signal.symbol] =
                               OpenedPosition(signal.action, position_size,
                                              signal.current_price)],
              trades |-> st.trades + 1,
              history |-> [st.history EXCEPT ![signal.symbol] = @ + 1],
              times |-> [st.times EXCEPT ![signal.symbol] = now],
              orders |-> LoggedStopLoss(
                             LoggedOrder(st.orders, signal.symbol, now), signal.symbol,
                             calculate_atr_stop_loss(signal.current_price, signal.atr,
                                                     signal.action)),
              executed |-> st.executed + 1,
              processed |-> st.processed + 1,
              failed |-> st.failed]
        ELSE [st EXCEPT !.processed = @ + 1, !.failed = TRUE]

RECURSIVE ExecuteSignals(_, _, _, _, _)
ExecuteSignals(signals, failing, losses, now, st) ==
    IF signals = <<>> \/ BkCycleAborts(st.failed) THEN st
    ELSE ExecuteSignals(Tail(signals), failing, losses, now,
                        ExecuteSignal(Head(signals), failing, losses, now, st))

\* TradingBot._update_trailing_stops
TrailAll(positions, marks) ==
    [s \in BkSymbols |->
        IF marks[s] = NoMark THEN positions[s]
        ELSE TrailedPosition(positions[s], marks[s].current_price, marks[s].atr)]

ExecuteTradingCycle ==
    IF ~is_running
    THEN /\ bk_op' = "execute_trading_cycle"
         /\ bk_call' = NoCall
         /\ bk_result' = [status |-> "stopped", signals_analyzed |-> 0,
                           processed |-> 0, trades_executed |-> 0]
         /\ UNCHANGED <<bk_now, bk_today, bk_last_reset_date, daily_losses, bk_daily_trades,
                        open_positions, trade_history, is_running, last_trade_time, order_log>>
         /\ UNCHANGED exceptBackend
    ELSE \E signals \in SignalLists :
         \E failing \in SUBSET { signals[i].symbol : i \in DOMAIN signals },
            marks \in [BkSymbols -> Marks] :
           LET reset == signals # <<>>
               losses == IF reset THEN BkLossesAfterReset ELSE daily_losses
               st0 == [positions |-> open_positions,
                       trades |-> IF reset THEN BkTradesAfterReset ELSE bk_daily_trades,
                       history |-> trade_history,
                       times |-> last_trade_time,
                       orders |-> order_log,
                       executed |-> 0,
                       processed |-> 0,
                       failed |-> FALSE]
               st == ExecuteSignals(signals, failing, losses, bk_now, st0)
           IN  /\ \A s \in BkSymbols : st.positions[s] = NoPosition => marks[s] = NoMark
               /\ bk_last_reset_date' = IF reset THEN BkDateAfterReset ELSE bk_last_reset_date
               /\ daily_losses' = losses
               /\ bk_daily_trades' = st.trades
               /\ open_positions' = TrailAll(st.positions, marks)
               /\ trade_history' = st.history
               /\ last_trade_time' = st.times
               /\ order_log' = st.orders
               /\ bk_op' = "execute_trading_cycle"
               /\ bk_call' = NoCall
               /\ bk_result' = [status |-> "success", signals_analyzed |-> Len(signals),
                                 processed |-> st.processed,
                                 trades_executed |-> st.executed]
               /\ UNCHANGED <<bk_now, bk_today, is_running>>
               /\ UNCHANGED exceptBackend

InitBackendSpec == InitRiskManager /\ InitBackend /\ InitExecution("valid") /\ InitTradingBot /\ InitMonitor

NextBackend ==
    \/ BackendTick
    \/ BotStart
    \/ BotStop
    \/ ManualTrade
    \/ ExecuteTradingCycle

SpecBackend == InitBackendSpec /\ [][NextBackend]_vars

(***************************************************************************)
(* The backend RiskManager's trailing stops, called directly on positions  *)
(* opened by manual trades, across calendar dates                          *)
(***************************************************************************)
NextTrailing ==
    \/ BackendDayRollover
    \/ ManualTrade
    \/ UpdateTrailingStop

SpecTrailing == InitBackendSpec /\ [][NextTrailing]_vars

(***************************************************************************)
(* The service around the backend TradingBot (src/backend/main.py):        *)
(* POST /api/bot/start builds a new TradingBot, with a new RiskManager,    *)
(* in place of the current one and starts it; the cycles and the manual    *)
(* trades then run on the new object.  The broker keeps the orders of the  *)
(* replaced one.                                                           *)
(***************************************************************************)
ApiBotStart ==
    \E connected \in BOOLEAN :
        /\ bk_last_reset_date' = bk_today
        /\ daily_losses' = 0
        /\ bk_daily_trades' = 0
        /\ open_positions' = [s \in BkSymbols |-> NoPosition]
        /\ trade_history' = [s \in BkSymbols |-> 0]
        /\ last_trade_time' = [s \in BkSymbols |-> None]
        /\ is_running' = connected
        /\ bk_op' = "api_bot_start"
        /\ bk_call' = NoCall
        /\ bk_result' = [status |-> IF connected THEN "success" ELSE "error"]
        /\ UNCHANGED <<bk_now, bk_today, order_log>>
        /\ UNCHANGED exceptBackend

(***************************************************************************)
(* RiskManager.calculate_position_size called on a RiskManager built with  *)
(* a given account balance and holding given daily losses.  The inputs are *)
(* chosen so that every division is exact in cents and hundredths of a     *)
(* coin.                                                                   *)
(***************************************************************************)
\* BotStartRequest.account_balance: 40 and 100 (the default) dollars
SizingBalances == {4000, 10000}
SizingEntries == {100, 1000, 10000}
\* |entry_price - stop_loss_price|
SizingDistances == {0, 10, 20, 40, 100, 1000}
SizingAtrs == {0, 5, 10, 20, 50, 500, 2000}
\* entry 50000, stop 49000, ATR 800 (dollars)
SizingExample == [entry_price |-> 5000000, stop_loss_price |-> 4900000, atr |-> 80000]

SizingInputs ==
    { [entry_price |-> e, stop_loss_price |-> e + d, atr |-> a] :
        e \in SizingEntries, d \in SizingDistances, a \in SizingAtrs }
    \cup { [entry_price |-> e, stop_loss_price |-> e - d, atr |-> a] :
             e \in SizingEntries, d \in { x \in SizingDistances : x <= 100 },
             a \in SizingAtrs }
    \cup { SizingExample }

CalculatePositionSize ==
    \E balance \in SizingBalances, input \in SizingInputs :
    \E losses \in {0, (balance * bk_daily_loss_limit) \div 100} :
        /\ bk_op' = "calculate_position_size"
        /\ bk_call' = [account_balance |-> balance, daily_losses |-> losses,
                       entry_price |-> input.entry_price,
                       stop_loss_price |-> input.stop_loss_price, atr |-> input.atr]
        /\ bk_result' =
             [position_size |-> PositionSize(balance, losses, input.entry_price,
                                             input.stop_loss_price, input.atr),
              stop_loss_distance |-> StopLossDistance(input.entry_price,
                                                      input.stop_loss_price, input.atr)]
        /\ UNCHANGED <<bk_now, bk_today, bk_last_reset_date, daily_losses, bk_daily_trades,
                       open_positions, trade_history, is_running, last_trade_time,
                       order_log>>
        /\ UNCHANGED exceptBackend

(***************************************************************************)
(* The broker executes the stop-loss order of a held position: a trade on  *)
(* the opposite side, at the stop price, that closes the position.  The    *)
(* bot has no handler for it and never calls record_trade with             *)
(* trade_type = "close"; RecordedClose is what that call would do.         *)
(***************************************************************************)
\* RiskManager.record_trade, trade_type == "close": the loss added to daily_losses
ClosedLoss(position, quantity, price) ==
    LET pnl == IF position.side = "buy"
               THEN ((price - position.entry_price) * quantity) \div 100
               ELSE ((position.entry_price - price) * quantity) \div 100
    IN  IF pnl < 0 THEN Abs(pnl) ELSE 0

StopLossFills ==
    \E symbol \in BkSymbols :
        /\ order_log[symbol].stop_price # None
        /\ ~order_log[symbol].stop_filled
        /\ order_log' = [order_log EXCEPT ![symbol].stop_filled = TRUE]
        /\ UNCHANGED <<bk_now, bk_today, bk_last_reset_date, daily_losses, bk_daily_trades,
                       open_positions, trade_history, is_running, last_trade_time,
                       bk_op, bk_call, bk_result>>
        /\ UNCHANGED exceptBackend

NextLifecycle ==
    \/ BotStart
    \/ ExecuteTradingCycle
    \/ ManualTrade
    \/ StopLossFills

SpecLifecycle == InitBackendSpec /\ [][NextLifecycle]_vars

NextSizing == CalculatePositionSize

SpecSizing == InitBackendSpec /\ [][NextSizing]_vars

(***************************************************************************)
(* StrategyEngine._combine_signals (src/backend/strategy_engine.py): the   *)
(* action and the strength of the signal.  Weights and scores in tenths,   *)
(* the confidence in percent, the strength in thousandths.                 *)
(***************************************************************************)
confidence_threshold == 55
technical_weight == 3
ml_weight == 7
buy_score == 12
sell_score == 8

TechnicalSignals == {-1, 0, 1}
MlSignals == {0, 1, 2}
MlConfidences == { 5 * k : k \in 0..20 }

WeightedSignal(technical_signal, ml_signal) ==
    technical_signal * technical_weight + ml_signal * ml_weight

combine_signals(technical_signal, ml_signal, ml_confidence) ==
    LET weighted_signal == WeightedSignal(technical_signal, ml_signal)
    IN  IF weighted_signal >= buy_score /\ ml_confidence >= confidence_threshold
        THEN [action |-> "buy",
              strength |-> Min(weighted_signal - sell_score, 10) * ml_confidence]
        ELSE IF weighted_signal <= sell_score /\ ml_confidence >= confidence_threshold
        THEN [action |-> "sell",
              strength |-> (buy_score - weighted_signal) * ml_confidence]
        ELSE [action |-> "hold", strength |-> 0]

CombineSignals ==
    \E technical_signal \in TechnicalSignals, ml_signal \in MlSignals,
       ml_confidence \in MlConfidences :
        /\ bk_op' = "combine_signals"
        /\ bk_call' = [technical_signal |-> technical_signal, ml_signal |-> ml_signal,
                       ml_confidence |-> ml_confidence]
        /\ bk_result' = combine_signals(technical_signal, ml_signal, ml_confidence)
        /\ UNCHANGED <<bk_now, bk_today, bk_last_reset_date, daily_losses, bk_daily_trades,
                       open_positions, trade_history, is_running, last_trade_time,
                       order_log>>
        /\ UNCHANGED exceptBackend

NextSignals == CombineSignals

SpecSignals == InitBackendSpec /\ [][NextSignals]_vars

(***************************************************************************)
(* StrategyEngine.analyze_market: the analysis of one symbol.  The inputs  *)
(* are what the call would compute from the market: whether there is       *)
(* enough historical data, the last technical signal and the ML class and  *)
(* confidence.  An analysis younger than min_analysis_interval is returned *)
(* from active_signals instead.                                            *)
(***************************************************************************)
min_analysis_interval == 180

AnalysisTechnicalSignals == {0, 1}
AnalysisMlSignals == {0, 2}
AnalysisConfidences == {50, 80}

\* StrategyEngine._should_skip_analysis
should_skip_analysis(times, symbol, now) ==
    /\ times[symbol] # None
    /\ now - times[symbol] < min_analysis_interval

\* the action, strength and confidence of _combine_signals' return value
analysis_result(technical_signal, ml_signal, ml_confidence) ==
    LET combined == combine_signals(technical_signal, ml_signal, ml_confidence)
    IN  [action |-> combined.action, strength |-> combined.strength,
         confidence |-> ml_confidence]

AnalyzeMarket ==
    \E symbol \in BkSymbols, enough_data \in BOOLEAN,
       technical_signal \in AnalysisTechnicalSignals, ml_signal \in AnalysisMlSignals,
       ml_confidence \in AnalysisConfidences :
        LET skip == should_skip_analysis(last_analysis_time, symbol, bk_now)
            analysed == ~skip /\ enough_data
            result == analysis_result(technical_signal, ml_signal, ml_confidence)
        IN  /\ bk_op' = "analyze_market"
            /\ bk_call' = [symbol |-> symbol, enough_data |-> enough_data,
                           technical_signal |-> technical_signal,
                           ml_signal |-> ml_signal, ml_confidence |-> ml_confidence]
            /\ bk_result' = IF skip THEN active_signals[symbol]
                            ELSE IF enough_data THEN result ELSE NoSignal
            /\ active_signals' =
                 IF analysed THEN [active_signals EXCEPT ![symbol] = result]
                 ELSE active_signals
            /\ last_analysis_time' =
                 IF analysed THEN [last_analysis_time EXCEPT ![symbol] = bk_now]
                 ELSE last_analysis_time
            /\ UNCHANGED <<bk_now, bk_today, bk_last_reset_date, daily_losses,
                           bk_daily_trades, open_positions, trade_history, is_running,
                           last_trade_time, order_log>>
            /\ UNCHANGED <<riskVars, rateVars, paperVars, botVars, monitorVars, taskVars, orderVars>>

NextAnalysis ==
    \/ BackendTick
    \/ AnalyzeMarket

SpecAnalysis == InitBackendSpec /\ [][NextAnalysis]_vars

(***************************************************************************)
(* Request signing of the two broker clients: ExecutionModule.             *)
(* _create_auth_headers (src/backend/app/execution_module.py) and          *)
(* RobinhoodClient._make_request with _generate_signature                  *)
(* (src/backend/robinhood_client.py).  Strings are sequences of            *)
(* characters and an f-string is their concatenation.  The Ed25519         *)
(* signature is a function of the key and of the message, so a header set  *)
(* is modelled with the message that was signed in place of x-signature.   *)
(***************************************************************************)
api_key == <<"r", "h">>

\* str(int(time.time())) at two seconds
SignTimestamps == {<<"1", "7">>, <<"1", "8">>}
SignPaths == {<<"/", "a", "/">>, <<"/", "o", "/">>}
SignMethods == {<<"G", "E", "T">>, <<"P", "O", "S", "T">>}
\* the request's dict: None, or {"s": "b"}
NoBody == [keys |-> <<>>]
SignBodies == {NoBody, [keys |-> <<"s">>, s |-> <<"b">>]}

SignRequests ==
    [timestamp : SignTimestamps, path : SignPaths, method : SignMethods, body : SignBodies]

\* str.upper on the letters of the method names
UpperChar(c) ==
    CASE c = "g" -> "G" [] c = "e" -> "E" [] c = "t" -> "T"
      [] c = "p" -> "P" [] c = "o" -> "O" [] c = "s" -> "S"
      [] OTHER -> c

Upper(str) == [i \in DOMAIN str |-> UpperChar(str[i])]

\* str(body) of a one-entry dict: {'s': 'b'}
py_str(body) ==
    <<"{", "'">> \o body.keys \o <<"'", ":", " ", "'">> \o body.s \o <<"'", "}">>

\* json.dumps(data) of a one-entry dict: {"s": "b"}
json_dumps(data) ==
    <<"{", "\"">> \o data.keys \o <<"\"", ":", " ", "\"">> \o data.s \o <<"\"", "}">>

\* ExecutionModule._create_auth_headers
create_auth_headers(timestamp, method, endpoint, body) ==
    LET body_str == IF body # NoBody THEN py_str(body) ELSE <<>>
        message == api_key \o timestamp \o endpoint \o Upper(method) \o body_str
    IN  [x_api_key |-> api_key, x_timestamp |-> timestamp, signed |-> message]

\* RobinhoodClient._generate_signature
generate_signature(method, path, body, timestamp) ==
    method \o <<"|">> \o path \o <<"|">> \o body \o <<"|">> \o timestamp

\* RobinhoodClient._make_request, up to the headers
make_request_headers(timestamp, method, endpoint, data) ==
    LET body == IF data # NoBody THEN json_dumps(data) ELSE <<>>
    IN  [x_api_key |-> api_key, x_timestamp |-> timestamp,
         signed |-> generate_signature(method, endpoint, body, timestamp)]

CreateAuthHeaders ==
    \E request \in SignRequests :
        /\ ex_op' = "create_auth_headers"
        /\ ex_call' = request
        /\ ex_result' = create_auth_headers(request.timestamp, request.method,
                                            request.path, request.body)
        /\ UNCHANGED <<paper_cash, paper_positions, paper_total_value, paper_trades, ex_prev>>
        /\ UNCHANGED exceptPaper

MakeRequest ==
    \E request \in SignRequests :
        /\ bk_op' = "make_request"
        /\ bk_call' = request
        /\ bk_result' = make_request_headers(request.timestamp, request.method,
                                             request.path, request.body)
        /\ UNCHANGED <<bk_now, bk_today, bk_last_reset_date, daily_losses,
                       bk_daily_trades, open_positions, trade_history, is_running,
                       last_trade_time, order_log>>
        /\ UNCHANGED exceptBackend

NextSigning ==
    \/ CreateAuthHeaders
    \/ MakeRequest

SpecSigning == InitBackendSpec /\ [][NextSigning]_vars

\* The requests of the service between two ticks of its clock: the trades
\* checked here are the ones that reach the broker at one and the same time.
NextService ==
    \/ ApiBotStart
    \/ ManualTrade
    \/ ExecuteTradingCycle

SpecService == InitBackendSpec /\ [][NextService]_vars

(***************************************************************************)
(* Live-mode ExecutionModule with a key pair that signs                    *)
(***************************************************************************)
InitRate ==
    /\ InitRiskManager
    /\ InitBackend
    /\ InitExecution("valid")
    /\ InitTradingBot /\ InitMonitor

(***************************************************************************)
(* A full window passes without any request.                               *)
(***************************************************************************)
WindowElapses ==
    /\ rl_now + rate_limit_window <= MaxRateNow
    /\ rl_now' = rl_now + rate_limit_window
    /\ sent_log' = SentLog(sent_log, rl_now', FALSE)
    /\ UNCHANGED <<credentials, request_timestamps, rl_pc, rl_request, rl_result>>
    /\ UNCHANGED exceptRate

(***************************************************************************)
(* _place_real_order, _get_real_portfolio and get_order_status up to the   *)
(* point where the request is sent or the caller starts its backoff sleep  *)
(***************************************************************************)
(* What the broker answers to a request that went out.  ok = FALSE is a    *)
(* transport error (the aiohttp call raises); otherwise status is the HTTP *)
(* status and id / total_equity / state are the fields of the JSON body    *)
(* the handlers read.                                                      *)
(***************************************************************************)
NoResponse == [ok |-> FALSE, status |-> None, id |-> "", total_equity |-> None, state |-> ""]

\* the symbols the bot trades; live portfolios carry no positions (positions={})
NoPositions == [s \in Symbols |-> 0]

HttpResponse(status, id, total_equity, state) ==
    [ok |-> TRUE, status |-> status, id |-> id, total_equity |-> total_equity, state |-> state]

Responses(kind) ==
    {NoResponse} \cup
    CASE kind = "place_order" ->
           { HttpResponse(200, "order-1", None, ""),
             HttpResponse(201, "order-1", None, ""),
             HttpResponse(400, "", None, "") }
      [] kind = "get_portfolio" ->
           { HttpResponse(200, "", 9000, ""),
             HttpResponse(200, "", 9400, ""),
             HttpResponse(500, "", None, "") }
      [] OTHER ->
           { HttpResponse(200, "", None, "pending"),
             HttpResponse(200, "", None, "filled"),
             HttpResponse(404, "", None, "") }

(***************************************************************************)
(* _place_real_order's answer: a pending Trade carrying the broker's id on *)
(* HTTP 201, a rejected Trade without id on anything else.                 *)
(***************************************************************************)
OrderAccepted(response) == response.ok /\ response.status = 201

real_order(sent, response) ==
    IF sent /\ OrderAccepted(response)
    THEN [status |-> "pending", id |-> response.id]
    ELSE [status |-> "rejected", id |-> ""]

(***************************************************************************)
(* _get_real_portfolio's answer: the broker's figures on HTTP 200, the     *)
(* configured budget on any failure.  The answers enumerated report a      *)
(* buying_power equal to total_equity.                                     *)
(***************************************************************************)
real_portfolio(sent, response) ==
    IF sent /\ response.ok /\ response.status = 200
    THEN [total_value |-> response.total_equity, available_cash |-> response.total_equity,
          positions |-> NoPositions, fetched |-> TRUE]
    ELSE [total_value |-> trading_budget, available_cash |-> trading_budget,
          positions |-> NoPositions, fetched |-> FALSE]

(***************************************************************************)
(* get_order_status's answer: the mapped state on HTTP 200, PENDING on any *)
(* failure.                                                                *)
(***************************************************************************)
real_order_status(sent, response) ==
    IF sent /\ response.ok /\ response.status = 200
    THEN [status |-> IF response.state \in {"pending", "filled", "cancelled", "rejected"}
                     THEN response.state ELSE "pending",
          fetched |-> TRUE]
    ELSE [status |-> "pending", fetched |-> FALSE]

LiveAnswer(kind, sent, response) ==
    CASE kind = "place_order"   -> real_order(sent, response)
      [] kind = "get_portfolio" -> real_portfolio(sent, response)
      [] OTHER                  -> real_order_status(sent, response)

(***************************************************************************)
BeginRequestFor(c, kind) ==
    /\ rl_pc[c] = "idle"
    /\ rl_now + backoff_delay <= MaxRateNow
    /\ Len(sent_log) < MaxSent
    /\ IF RejectedUnchecked(kind, credentials)
       THEN /\ rl_result' = [caller |-> c, kind |-> kind, sent |-> FALSE,
                             waited |-> FALSE, checked_at |-> None, sent_at |-> None,
                             response |-> NoResponse,
                             answer |-> LiveAnswer(kind, FALSE, NoResponse)]
            /\ UNCHANGED <<request_timestamps, sent_log, rl_pc, rl_request>>
       ELSE LET checked == check_rate_limit(request_timestamps, rl_now)
            IN  /\ request_timestamps' = checked.timestamps
                /\ IF checked.ok
                   THEN /\ sent_log' = SentLog(sent_log, rl_now, Signs(credentials))
                        /\ \E response \in IF Signs(credentials)
                                           THEN Responses(kind) ELSE {NoResponse} :
                             rl_result' =
                               [caller |-> c, kind |-> kind, sent |-> Signs(credentials),
                                waited |-> FALSE, checked_at |-> rl_now,
                                sent_at |-> IF Signs(credentials) THEN rl_now ELSE None,
                                response |-> response,
                                answer |-> LiveAnswer(kind, Signs(credentials), response)]
                        /\ UNCHANGED <<rl_pc, rl_request>>
                   ELSE /\ rl_pc' = [rl_pc EXCEPT ![c] = "backoff"]
                        /\ rl_request' =
                             [rl_request EXCEPT ![c] = [kind |-> kind, checked_at |-> rl_now]]
                        /\ UNCHANGED <<sent_log, rl_result>>
    /\ UNCHANGED <<rl_now, credentials>>
    /\ UNCHANGED exceptRate

BeginRequest == \E c \in Callers, kind \in RequestKinds : BeginRequestFor(c, kind)

(***************************************************************************)
(* The backoff sleep ends and the request goes out without a second check. *)
(***************************************************************************)
BackoffElapsesFor(c) ==
    /\ rl_pc[c] = "backoff"
    /\ rl_now' = Max(rl_now, BackoffWake(rl_request[c].checked_at))
    /\ sent_log' = SentLog(sent_log, rl_now', Signs(credentials))
    /\ rl_pc' = [rl_pc EXCEPT ![c] = "idle"]
    /\ rl_request' = [rl_request EXCEPT ![c] = NoCall]
    /\ \E response \in IF Signs(credentials)
                       THEN Responses(rl_request[c].kind) ELSE {NoResponse} :
         rl_result' =
           [caller |-> c, kind |-> rl_request[c].kind, sent |-> Signs(credentials),
            waited |-> TRUE, checked_at |-> rl_request[c].checked_at,
            sent_at |-> IF Signs(credentials) THEN rl_now' ELSE None,
            response |-> response,
            answer |-> LiveAnswer(rl_request[c].kind, Signs(credentials), response)]
    /\ UNCHANGED <<credentials, request_timestamps>>
    /\ UNCHANGED exceptRate

BackoffElapses == \E c \in Callers : BackoffElapsesFor(c)

NextRate ==
    \/ WindowElapses
    \/ BeginRequest
    \/ BackoffElapses

SpecRate == InitRate /\ [][NextRate]_vars

\* asyncio resumes a sleeping coroutine once its delay has passed
SpecRateFair ==
    InitRate /\ [][NextRate]_vars /\ \A c \in Callers : WF_vars(BackoffElapsesFor(c))

(***************************************************************************)
(* ExecutionModule.place_order in paper mode                               *)
(***************************************************************************)
PlacePaperOrder ==
    \E symbol \in Symbols, side \in Signals, pricing \in PaperPricings,
       quantity \in PaperQuantities :
        LET after == place_paper_order(paper_cash, paper_positions, paper_total_value,
                                       paper_trades, symbol, side,
                                       pricing[1], quantity, pricing[2])
        IN  /\ paper_trades < MaxPaperTrades
            /\ paper_cash' = after.cash
            /\ paper_positions' = after.positions
            /\ paper_total_value' = after.total_value
            /\ paper_trades' = after.trades
            /\ ex_op' = "place_order"
            /\ ex_call' = [symbol |-> symbol, side |-> side, order_type |-> pricing[1],
                           quantity |-> quantity, price |-> pricing[2],
                           cash_before |-> paper_cash,
                           position_before |-> PositionOf(paper_positions, symbol)]
            /\ ex_result' = after.trade
            /\ ex_prev' = IF ex_op = "place_order"
                          THEN [call |-> ex_call, result |-> ex_result]
                          ELSE NoCall
            /\ UNCHANGED exceptPaper

\* ExecutionModule.get_portfolio in paper mode
paper_portfolio(cash, positions, total_value) ==
    [total_value |-> total_value, available_cash |-> cash,
     positions |-> [s \in Symbols |-> PositionOf(positions, s)]]

GetPaperPortfolio ==
    /\ ex_op' = "get_portfolio"
    /\ ex_call' = NoCall
    /\ ex_result' = paper_portfolio(paper_cash, paper_positions, paper_total_value)
    /\ ex_prev' = NoCall
    /\ UNCHANGED <<paper_cash, paper_positions, paper_total_value, paper_trades>>
    /\ UNCHANGED exceptPaper

InitPaper == InitRiskManager /\ InitBackend /\ InitExecution("valid") /\ InitTradingBot /\ InitMonitor

NextPaper ==
    \/ PlacePaperOrder
    \/ GetPaperPortfolio

SpecPaper == InitPaper /\ [][NextPaper]_vars

(***************************************************************************)
(* Claims about the app RiskManager (checked under SpecRisk)               *)
(***************************************************************************)

\* C1: after emergency_stop has been called, every later get_risk_metrics
\* reports trading_enabled = false and every later validate_trade returns
\* approved = false, until the calendar date changes.
C1_EmergencyStopDisablesTrading ==
    stopped =>
        /\ (rm_op = "get_risk_metrics" => ~rm_result.trading_enabled)
        /\ (rm_op = "validate_trade" => ~rm_result.approved)

\* C2: validate_trade never approves when the daily trade count has reached
\* max_trades_per_day, or daily_loss has reached budget * daily_loss_limit,
\* or the confidence is below 0.3; the result then has approved = false,
\* adjusted_quantity = 0 and a non-empty reason.
C2_ValidateTradeHonoursLimits ==
    (/\ rm_op = "validate_trade"
     /\ \/ daily_trades >= max_trades_per_day
        \/ daily_loss >= DailyLossLimitAmount
        \/ rm_call.strategy.confidence < min_confidence)
    => /\ ~rm_result.approved
       /\ rm_result.adjusted_quantity = 0
       /\ rm_result.reason # ""

\* C2 witness: a confident trade on a healthy portfolio is vetoed because
\* twenty trades have been recorded today.
C2_Witness ==
    /\ rm_op = "validate_trade"
    /\ daily_trades >= max_trades_per_day
    /\ daily_loss < DailyLossLimitAmount
    /\ rm_call.strategy.confidence >= min_confidence
    /\ rm_call.portfolio.total_value = trading_budget
    /\ ~rm_result.approved
    /\ rm_result.reason = "Daily trade limit reached"

\* C4: within one calendar day neither daily_loss nor the daily trade count
\* ever decreases, whatever operation is called.
C4_CountersMonotoneWithinDay ==
    [][(today' = today /\ last_reset_date = today)
         => (daily_loss' >= daily_loss /\ daily_trades' >= daily_trades)]_vars

\* C5: when the calendar date has advanced past last_reset_date, the first
\* operation of any kind resets the counters to zero before it reads or
\* updates them (so it leaves last_reset_date at the current date, at most the
\* one trade it records in the count and no loss of the previous day), and a
\* later operation on the same date does not reset again.
C5_FirstOperationResetsOnce ==
    [][/\ (today' = today /\ today > last_reset_date)
            => /\ last_reset_date' = today
               /\ daily_trades' <= 1
               /\ (rm_op' \in {"validate_trade", "get_risk_metrics"} => daily_loss' = 0)
       /\ (today' = today /\ today = last_reset_date)
            => /\ last_reset_date' = last_reset_date
               /\ daily_trades' >= daily_trades]_vars

\* C6: once get_risk_metrics has reported trading_enabled = false, no later
\* get_risk_metrics call on the same calendar day reports true.
C6_DisabledUntilRollover ==
    (rm_op = "get_risk_metrics" /\ disabled_seen) => ~rm_result.trading_enabled

\* The quantity validate_trade derives from the request before any clamping.
LastRequestedQuantity ==
    RequestedQuantity(rm_call.strategy, rm_call.portfolio, rm_call.current_price)

LastHeld == rm_call.portfolio.positions[rm_call.symbol]

LastIsSell == rm_op = "validate_trade" /\ rm_call.strategy.signal = "sell"

\* C7 as stated: every approved sell has 0 < adjusted_quantity <= held, a
\* larger request is resized to the held quantity, and a sell of a symbol with
\* zero held quantity is rejected with the reason "No position to sell".
C7_SellNeverOversold_AsStated ==
    LastIsSell =>
        /\ rm_result.approved =>
              /\ rm_result.adjusted_quantity > 0
              /\ rm_result.adjusted_quantity <= LastHeld
              /\ (LastRequestedQuantity > LastHeld => rm_result.adjusted_quantity = LastHeld)
        /\ LastHeld = 0 =>
              /\ ~rm_result.approved
              /\ rm_result.reason = "No position to sell"

\* The checks that validate_trade makes before it looks at the position.
LastPassedEarlierChecks ==
    /\ daily_trades < max_trades_per_day
    /\ daily_loss < DailyLossLimitAmount
    /\ rm_call.strategy.confidence >= min_confidence
    /\ TradeValue(rm_call.strategy, rm_call.portfolio) >= min_trade_amount

\* C7 amended: as above, but the zero-held sell carries the reason
\* "No position to sell" only when no earlier check (trade count, loss limit,
\* confidence floor, minimum trade value) has already rejected it; it is
\* rejected in every case.
C7_SellNeverOversold ==
    LastIsSell =>
        /\ rm_result.approved =>
              /\ rm_result.adjusted_quantity > 0
              /\ rm_result.adjusted_quantity <= LastHeld
              /\ (LastRequestedQuantity > LastHeld => rm_result.adjusted_quantity = LastHeld)
        /\ LastHeld = 0 =>
              /\ ~rm_result.approved
              /\ (LastPassedEarlierChecks => rm_result.reason = "No position to sell")

\* C7 witness: an approved sell that was resized down to the held quantity.
C7_Witness ==
    /\ LastIsSell
    /\ rm_result.approved
    /\ LastHeld > 0
    /\ LastRequestedQuantity > LastHeld
    /\ rm_result.adjusted_quantity = LastHeld

\* A sell of a symbol that is not held, vetoed for that reason.
C7_WitnessNoPosition ==
    /\ LastIsSell
    /\ LastHeld = 0
    /\ LastPassedEarlierChecks
    /\ rm_result.reason = "No position to sell"

(***************************************************************************)
(* Claims about the backend RiskManager and TradingBot                     *)
(***************************************************************************)

\* C3: driven by the TradingBot (execute_trading_cycle and manual_trade), a
\* symbol never has more than one open position: validate_trade rejects every
\* trade on a symbol that has an entry in open_positions, at most one 'open'
\* trade is ever recorded per symbol, and a step never adds to or overwrites
\* an existing position (only its stop_loss may change).
C3_OnePositionPerSymbol ==
    /\ [](\A s \in BkSymbols :
            /\ trade_history[s] <= 1
            /\ (trade_history[s] = 1) <=> (open_positions[s] # NoPosition)
            /\ open_positions[s] # NoPosition =>
                 \A side \in Sides, amount \in ManualAmounts, price \in OpenPrices :
                    ~bk_validate_trade(BkLossesAfterReset, open_positions, s, side,
                                       (amount * 100) \div price, price).ok)
    /\ [][\A s \in BkSymbols :
            open_positions[s] # NoPosition =>
                /\ trade_history'[s] = trade_history[s]
                /\ open_positions'[s] # NoPosition
                /\ [open_positions'[s] EXCEPT !.stop_loss = None]
                     = [open_positions[s] EXCEPT !.stop_loss = None]]_vars

\* C3 witness: a manual trade on a symbol that is already open was refused
\* for that reason, while a trading cycle has opened a position.
C3_Witness ==
    /\ bk_op = "manual_trade"
    /\ bk_result.message = "Already have open position"
    /\ \E s \in BkSymbols :
          open_positions[s] # NoPosition /\ last_trade_time[s] # None

\* C8: update_trailing_stop is a monotone ratchet.  A call never lowers the
\* stored stop_loss of a long position and never raises that of a short
\* position; a call whose new stop lies the wrong way leaves the stop as it
\* was and returns it; a call for a symbol with no open position returns None
\* and changes nothing; nothing but the stop_loss of the named symbol changes.
C8_TrailingStopRatchet ==
    [][UpdateTrailingStop =>
        LET symbol == bk_call'.symbol
            old == open_positions[symbol]
            new == open_positions'[symbol]
            new_stop == calculate_atr_stop_loss(bk_call'.current_price,
                                                bk_call'.atr, old.side)
        IN  /\ \A s \in BkSymbols \ {symbol} : open_positions'[s] = open_positions[s]
            /\ old = NoPosition => (new = NoPosition /\ bk_result' = None)
            /\ old # NoPosition =>
                 /\ [new EXCEPT !.stop_loss = None] = [old EXCEPT !.stop_loss = None]
                 /\ bk_result' = new.stop_loss
                 /\ new.stop_loss # None
                 /\ old.stop_loss # None =>
                      /\ old.side = "buy" => new.stop_loss >= old.stop_loss
                      /\ old.side = "sell" => new.stop_loss <= old.stop_loss
                      /\ (old.side = "buy" /\ new_stop <= old.stop_loss) =>
                            new.stop_loss = old.stop_loss
                      /\ (old.side = "sell" /\ new_stop >= old.stop_loss) =>
                            new.stop_loss = old.stop_loss]_vars

\* C8 witness: a call on a long position whose new stop lies below the stored
\* one returned the stored stop.
C8_Witness ==
    /\ bk_op = "update_trailing_stop"
    /\ open_positions[bk_call.symbol] # NoPosition
    /\ open_positions[bk_call.symbol].side = "buy"
    /\ calculate_atr_stop_loss(bk_call.current_price, bk_call.atr, "buy")
         < open_positions[bk_call.symbol].stop_loss
    /\ bk_result = open_positions[bk_call.symbol].stop_loss

\* A call for a symbol with no open position returned None.
C8_WitnessNoPosition ==
    /\ bk_op = "update_trailing_stop"
    /\ open_positions[bk_call.symbol] = NoPosition
    /\ bk_result = None

(***************************************************************************)
(* Claims about the live-mode rate limiter                                 *)
(***************************************************************************)

\* C9: counting every HTTP request actually sent by place_order,
\* get_portfolio and get_order_status, no window of 60 seconds contains more
\* than rate_limit_requests (100) of them, the requests issued after
\* _check_rate_limit returned false included.
C9_AtMostLimitPerWindow ==
    Len(sent_log) <= rate_limit_requests

\* The last request that returned was caller c's, sent after a backoff.
SentAfterBackoff(c) ==
    IF rl_result = NoCall THEN FALSE
    ELSE /\ rl_pc[c] = "idle"
         /\ rl_result.caller = c
         /\ rl_result.waited
         /\ rl_result.sent

\* C10: when rate_limit_requests requests are already admitted within the
\* current window, the next request is not sent in the step that makes the
\* check: its caller starts a backoff; the request goes out no earlier than
\* backoff_delay after the check; and every caller in backoff eventually has
\* its request sent.
C10_BackoffThenSent ==
    /\ [][\A c \in Callers :
            ( /\ \E kind \in RequestKinds : BeginRequestFor(c, kind)
              /\ Len(WithinWindow(request_timestamps, rl_now)) >= rate_limit_requests )
            => /\ rl_pc'[c] = "backoff"
               /\ sent_log' = sent_log
               /\ rl_result' = rl_result]_vars
    /\ [][\A c \in Callers :
            BackoffElapsesFor(c)
            => /\ rl_now' >= rl_request[c].checked_at + backoff_delay
               /\ rl_result'.sent
               /\ rl_result'.sent_at = rl_now'
               /\ sent_log' = Append(WithinWindow(sent_log, rl_now'), rl_now')]_vars
    /\ \A c \in Callers :
          (rl_pc[c] = "backoff") ~> SentAfterBackoff(c)

\* C10 witness: a request that found the window full has been sent after its
\* backoff, while the window is still full.
C10_Witness ==
    /\ rl_result # NoCall
    /\ rl_result.waited
    /\ rl_result.sent
    /\ rl_result.sent_at >= rl_result.checked_at + backoff_delay
    /\ Len(WithinWindow(request_timestamps, rl_now)) = rate_limit_requests

(***************************************************************************)
(* Claims about the paper-mode ExecutionModule                             *)
(***************************************************************************)

\* The last operation was a paper order of the given side that returned a Trade.
LastPaperOrder(side) ==
    IF ex_op # "place_order" THEN FALSE
    ELSE IF ex_result.raised THEN FALSE
    ELSE ex_call.side = side

\* C11: a paper buy whose cost (quantity * execution price) is at most the
\* ledger cash debits cash by exactly the cost, credits the symbol's position
\* by exactly the quantity and returns a filled Trade; a buy whose cost
\* exceeds cash returns a rejected Trade and leaves cash and every position
\* unchanged.
C11_PaperBuy ==
    [][(PlacePaperOrder /\ ex_call'.side = "buy" /\ ~ex_result'.raised) =>
        LET symbol == ex_call'.symbol
            cost == OrderValue(ex_call'.quantity, ex_result'.filled_price)
        IN  /\ cost <= paper_cash =>
                 /\ ex_result'.status = "filled"
                 /\ paper_cash' = paper_cash - cost
                 /\ PositionOf(paper_positions', symbol)
                      = PositionOf(paper_positions, symbol) + ex_call'.quantity
                 /\ \A s \in Symbols \ {symbol} : paper_positions'[s] = paper_positions[s]
            /\ cost > paper_cash =>
                 /\ ex_result'.status = "rejected"
                 /\ paper_cash' = paper_cash
                 /\ paper_positions' = paper_positions]_vars

\* C11 witness: a buy that costs more than the cash left was rejected after
\* an earlier buy had been filled.
C11_Witness ==
    /\ LastPaperOrder("buy")
    /\ ex_result.status = "rejected"
    /\ ex_call.cash_before < trading_budget
    /\ OrderValue(ex_call.quantity, ex_result.filled_price) > ex_call.cash_before
    /\ paper_cash = ex_call.cash_before

\* C12: a paper sell for more than the held quantity of the symbol is
\* executed for the held quantity: cash is credited by held quantity * price
\* and the position is reduced to zero, instead of the order being refused
\* (stated here for a symbol that is held).
C12_PaperSellClamped ==
    ( /\ LastPaperOrder("sell")
      /\ ex_call.position_before > 0
      /\ ex_call.quantity > ex_call.position_before ) =>
        /\ ex_result.status = "filled"
        /\ paper_cash = ex_call.cash_before
                          + OrderValue(ex_call.position_before, ex_result.filled_price)
        /\ PositionOf(paper_positions, ex_call.symbol) = 0

\* C14 (paper half): place_order never raises; it returns a Trade whose
\* status is pending, filled or rejected.
C14_PlaceOrderNeverRaises ==
    ex_op = "place_order" =>
        IF ex_result.raised THEN FALSE
        ELSE ex_result.status \in {"pending", "filled", "rejected"}

\* The order before the last one was a filled buy, and the last one a sell of
\* the same symbol and quantity with the same order type and price.
RoundTrip ==
    IF ex_op # "place_order" \/ ex_prev = NoCall THEN FALSE
    ELSE IF ex_prev.result.raised THEN FALSE
    ELSE /\ ex_prev.call.side = "buy"
         /\ ex_prev.result.status = "filled"
         /\ ex_call.side = "sell"
         /\ ex_call.symbol = ex_prev.call.symbol
         /\ ex_call.quantity = ex_prev.call.quantity
         /\ ex_call.order_type = ex_prev.call.order_type
         /\ ex_call.price = ex_prev.call.price

MaxCycles == 2
MaxManual == 1

\* self.symbols, the first two
BotSymbols == <<"dogecoin", "cardano">>

\* the trades the RiskManager has already recorded today when the bot is observed
EarlierTrades == {0, max_trades_per_day - 2}

\* strategy_engine.analyze_market: HOLD, or BUY with full confidence
HoldStrategy ==
    [signal |-> "hold", confidence |-> 100, suggested_quantity |-> None,
     stop_loss |-> None, take_profit |-> None]

CycleStrategies ==
    { HoldStrategy, [HoldStrategy EXCEPT !.signal = "buy"] }

\* manual_trade's TradingStrategy(signal, confidence=1.0, suggested_quantity=quantity)
ManualQuantities == {10, 50}

ManualStrategy(side, quantity) ==
    [signal |-> side, confidence |-> 100, suggested_quantity |-> quantity,
     stop_loss |-> None, take_profit |-> None]

\* mutant: the loop goes on whatever the flag says
LoopContinues_always(running) == TRUE

\* while self.is_running
LoopContinues(running) == running

\* mutant: the requested quantity is submitted
SubmittedQuantity_requested(quantity, validation) == quantity

\* quantity=validation["adjusted_quantity"]
SubmittedQuantity(quantity, validation) == validation.adjusted_quantity

(***************************************************************************)
(* One request leaves through the rate limiter (_check_rate_limit, then    *)
(* the HTTP call).  These runs stay below the window limit: the backoff    *)
(* branch is the subject of the rate-limiter specification.                *)
(***************************************************************************)
SendRequest ==
    LET checked == check_rate_limit(request_timestamps, rl_now)
    IN  /\ checked.ok
        /\ request_timestamps' = checked.timestamps
        /\ sent_log' = SentLog(sent_log, rl_now, Signs(credentials))
        /\ UNCHANGED <<rl_now, credentials, rl_pc, rl_request, rl_result>>

AnswersTo(kind) == IF Signs(credentials) THEN Responses(kind) ELSE {NoResponse}

\* RiskManager.validate_trade called by the bot
BotValidates(strategy, portfolio, symbol, current_price) ==
    /\ last_reset_date' = DateAfterReset
    /\ daily_trades' = TradesAfterReset
    /\ daily_loss' = LossAfterReset
    /\ rm_op' = "validate_trade"
    /\ rm_call' = [portfolio |-> portfolio]
    /\ rm_result' = validate_trade(TradesAfterReset, LossAfterReset,
                                   strategy, portfolio, symbol, current_price)
    /\ UNCHANGED <<today, stopped, disabled_seen>>

\* the for loop of _trading_cycle moves on; after the last symbol the task sleeps
NextSymbol(order) ==
    IF cycle_i < Len(BotSymbols)
    THEN /\ cycle_i' = cycle_i + 1
         /\ loop_pc' = "analyze"
         /\ cycle_order' = order
         /\ UNCHANGED cycle_portfolio
    ELSE /\ cycle_i' = 0
         /\ loop_pc' = "sleeping"
         /\ cycle_order' = NoCall
         /\ cycle_portfolio' = NoCall

\* mutant: a symbol that fails ends the for loop of the cycle
AppCycleAborts_onFailure(failed) == failed

\* _analyze_and_trade_symbol catches every exception and returns on a veto:
\* nothing a symbol does reaches the handler around the cycle
AppCycleAborts(failed) == FALSE

\* _analyze_and_trade_symbol is over for the current symbol
AfterSymbol(failed, order) ==
    IF AppCycleAborts(failed)
    THEN /\ cycle_i' = 0
         /\ loop_pc' = "sleeping"
         /\ cycle_order' = NoCall
         /\ cycle_portfolio' = NoCall
    ELSE NextSymbol(order)

(***************************************************************************)
(* TradingBot.start: sets the flag and enters the loop.  The model has one *)
(* start() task: start is called when no earlier task is still alive.      *)
(***************************************************************************)
AppStart ==
    /\ ~app_is_running
    /\ loop_pc = "idle"
    /\ cycles_begun < MaxCycles
    /\ app_is_running' = TRUE
    /\ loop_pc' = "cycle"
    /\ cycles_begun' = cycles_begun + 1
    /\ stop_mark' = NoCall
    /\ UNCHANGED <<cycle_i, cycle_portfolio, cycle_order, manual_pc, manual_order,
                   bot_op, bot_result, manual_calls>>
    /\ UNCHANGED <<riskVars, rateVars>>
    /\ UNCHANGED exceptBot

(***************************************************************************)
(* TradingBot.stop: clears the flag (and closes the data ingestor's        *)
(* session, which the ingestor reopens on its next call).                  *)
(***************************************************************************)
AppStop ==
    /\ app_is_running
    /\ app_is_running' = FALSE
    /\ stop_mark' = [cycles |-> cycles_begun,
                     in_flight |-> loop_pc \in {"placing", "fetching"},
                     recorded |-> FALSE]
    /\ UNCHANGED <<loop_pc, cycle_i, cycle_portfolio, cycle_order, manual_pc,
                   manual_order, bot_op, bot_result, cycles_begun, manual_calls>>
    /\ UNCHANGED <<riskVars, rateVars>>
    /\ UNCHANGED exceptBot

(***************************************************************************)
(* _trading_cycle, lines 85-93: market data and news arrive, the portfolio *)
(* is fetched, get_risk_metrics decides whether the cycle trades.          *)
(***************************************************************************)
CycleFetch ==
    /\ loop_pc = "cycle"
    /\ SendRequest
    /\ \E response \in AnswersTo("get_portfolio") :
        LET portfolio == real_portfolio(Signs(credentials), response)
            risk_metrics == get_risk_metrics(TradesAfterReset, LossAfterReset, portfolio)
        IN  /\ last_reset_date' = DateAfterReset
            /\ daily_trades' = TradesAfterReset
            /\ daily_loss' = LossAfterReset
            /\ rm_op' = "get_risk_metrics"
            /\ rm_call' = NoCall
            /\ rm_result' = risk_metrics
            /\ disabled_seen' = (disabled_seen \/ ~risk_metrics.trading_enabled)
            /\ UNCHANGED <<today, stopped>>
            /\ IF risk_metrics.trading_enabled
               THEN /\ cycle_portfolio' = portfolio
                    /\ cycle_i' = 1
                    /\ loop_pc' = "analyze"
               ELSE /\ cycle_portfolio' = NoCall
                    /\ cycle_i' = 0
                    /\ loop_pc' = "sleeping"
    /\ cycle_order' = NoCall
    /\ UNCHANGED <<app_is_running, manual_pc, manual_order, bot_op,
                   bot_result, cycles_begun, manual_calls, stop_mark>>
    /\ UNCHANGED exceptBot

(***************************************************************************)
(* _analyze_and_trade_symbol, lines 106-149: the indicators arrive, the    *)
(* strategy is computed, the trade is validated against the portfolio the  *)
(* cycle was given, and an approved order is sent.                         *)
(***************************************************************************)
AnalyzeSymbol ==
    /\ loop_pc = "analyze"
    /\ \E strategy \in CycleStrategies, current_price \in Prices, raises \in BOOLEAN :
        LET symbol == BotSymbols[cycle_i]
            validation == validate_trade(TradesAfterReset, LossAfterReset, strategy,
                                         cycle_portfolio, symbol, current_price)
        IN  IF raises
            THEN \* the indicators or the strategy engine raised (lines 108-115)
                 /\ AfterSymbol(TRUE, cycle_order)
                 /\ UNCHANGED <<riskVars, rateVars>>
            ELSE IF strategy.signal = "hold"
            THEN /\ AfterSymbol(FALSE, cycle_order)
                 /\ UNCHANGED <<riskVars, rateVars>>
            ELSE /\ BotValidates(strategy, cycle_portfolio, symbol, current_price)
                 /\ IF ~validation.approved
                    THEN /\ AfterSymbol(TRUE, cycle_order)
                         /\ UNCHANGED rateVars
                    ELSE /\ SendRequest
                         /\ cycle_order' =
                              [symbol |-> symbol,
                               quantity |-> SubmittedQuantity(None, validation),
                               portfolio_value_before |-> cycle_portfolio.total_value,
                               trades_seen |-> TradesAfterReset,
                               status |-> "", portfolio_after |-> NoCall]
                         /\ loop_pc' = "placing"
                         /\ UNCHANGED <<cycle_i, cycle_portfolio>>
    /\ UNCHANGED <<app_is_running, manual_pc, manual_order, bot_op, bot_result,
                   cycles_begun, manual_calls, stop_mark>>
    /\ orders_today' = orders_today + (IF loop_pc' = "placing" THEN 1 ELSE 0)
    /\ UNCHANGED exceptBotOrders

(***************************************************************************)
(* Lines 143-151: place_order returns its Trade and get_portfolio is sent. *)
(***************************************************************************)
OrderReturns ==
    /\ loop_pc = "placing"
    /\ \E response \in AnswersTo("place_order") :
         cycle_order' = [cycle_order EXCEPT
                           !.status = real_order(Signs(credentials), response).status]
    /\ SendRequest
    /\ loop_pc' = "fetching"
    /\ UNCHANGED <<app_is_running, cycle_i, cycle_portfolio, manual_pc, manual_order,
                   bot_op, bot_result, cycles_begun, manual_calls, stop_mark>>
    /\ UNCHANGED riskVars
    /\ UNCHANGED exceptBot

(***************************************************************************)
(* Lines 151-156: get_portfolio returns and record_trade counts the trade  *)
(* and books its P&L against the cycle's portfolio value.                  *)
(***************************************************************************)
PortfolioReturns ==
    /\ loop_pc = "fetching"
    /\ \E response \in AnswersTo("get_portfolio") :
        LET portfolio_after == real_portfolio(Signs(credentials), response)
            loss == RecordedLoss(LossAfterReset, cycle_order.portfolio_value_before,
                                 portfolio_after.total_value)
        IN  /\ TradesAfterReset < MaxTrades
            /\ loss <= MaxDailyLoss
            /\ last_reset_date' = DateAfterReset
            /\ daily_trades' = TradesAfterReset + 1
            /\ daily_loss' = loss
            /\ rm_op' = "record_trade"
            /\ rm_call' = NoCall
            /\ rm_result' = NoCall
            /\ UNCHANGED <<today, stopped, disabled_seen>>
            /\ AfterSymbol(cycle_order.status = "rejected",
                           [cycle_order EXCEPT !.portfolio_after = portfolio_after])
    /\ stop_mark' = IF stop_mark = NoCall THEN NoCall
                    ELSE IF stop_mark.in_flight
                    THEN [stop_mark EXCEPT !.recorded = TRUE]
                    ELSE stop_mark
    /\ UNCHANGED <<app_is_running, manual_pc, manual_order, bot_op, bot_result,
                   cycles_begun, manual_calls>>
    /\ UNCHANGED rateVars
    /\ UNCHANGED exceptBot

(***************************************************************************)
(* Lines 58-60: the sleep ends and the loop condition is evaluated.        *)
(***************************************************************************)
LoopWakes ==
    /\ loop_pc = "sleeping"
    /\ IF LoopContinues(app_is_running)
       THEN /\ cycles_begun < MaxCycles
            /\ loop_pc' = "cycle"
            /\ cycles_begun' = cycles_begun + 1
       ELSE /\ loop_pc' = "idle"
            /\ UNCHANGED cycles_begun
    /\ UNCHANGED <<app_is_running, cycle_i, cycle_portfolio, cycle_order, manual_pc,
                   manual_order, bot_op, bot_result, manual_calls, stop_mark>>
    /\ UNCHANGED <<riskVars, rateVars>>
    /\ UNCHANGED exceptBot

(***************************************************************************)
(* manual_trade, line 222: the portfolio is fetched.                       *)
(***************************************************************************)
ManualBegin ==
    /\ manual_pc = "idle"
    /\ manual_calls < MaxManual
    /\ SendRequest
    /\ \E symbol \in {BotSymbols[1]}, side \in Signals, quantity \in ManualQuantities,
          response \in AnswersTo("get_portfolio") :
         manual_order' = [symbol |-> symbol, side |-> side, quantity |-> quantity,
                          portfolio |-> real_portfolio(Signs(credentials), response)]
    /\ manual_pc' = "validating"
    /\ manual_calls' = manual_calls + 1
    /\ UNCHANGED <<app_is_running, loop_pc, cycle_i, cycle_portfolio, cycle_order,
                   bot_op, bot_result, cycles_begun, stop_mark>>
    /\ UNCHANGED riskVars
    /\ UNCHANGED exceptBot

(***************************************************************************)
(* manual_trade, lines 224-257: the market data arrives, the trade is      *)
(* validated, and an approved order is sent; a veto returns the reason.    *)
(***************************************************************************)
ManualValidate ==
    /\ manual_pc = "validating"
    /\ \E current_price \in Prices \cup {None} :
        LET strategy == ManualStrategy(manual_order.side, manual_order.quantity)
            validation == validate_trade(TradesAfterReset, LossAfterReset, strategy,
                                         manual_order.portfolio, manual_order.symbol,
                                         current_price)
        IN  IF current_price = None
            THEN /\ bot_op' = "manual_trade"
                 /\ bot_result' = [status |-> "error",
                                   message |-> "Could not fetch market data",
                                   validated |-> FALSE, approved |-> FALSE,
                                   adjusted_quantity |-> None, reason |-> "",
                                   submitted |-> None]
                 /\ manual_pc' = "idle"
                 /\ manual_order' = NoCall
                 /\ UNCHANGED <<riskVars, rateVars>>
            ELSE /\ BotValidates(strategy, manual_order.portfolio, manual_order.symbol,
                                 current_price)
                 /\ IF ~validation.approved
                    THEN /\ bot_op' = "manual_trade"
                         /\ bot_result' = [status |-> "error",
                                           message |-> validation.reason,
                                           validated |-> TRUE, approved |-> FALSE,
                                           adjusted_quantity |-> validation.adjusted_quantity,
                                           reason |-> validation.reason,
                                           submitted |-> None]
                         /\ manual_pc' = "idle"
                         /\ manual_order' = NoCall
                         /\ UNCHANGED rateVars
                    ELSE /\ SendRequest
                         /\ manual_order' =
                              [symbol |-> manual_order.symbol,
                               approved |-> validation.approved,
                               adjusted_quantity |-> validation.adjusted_quantity,
                               submitted |-> SubmittedQuantity(manual_order.quantity,
                                                               validation),
                               trades_seen |-> TradesAfterReset]
                         /\ manual_pc' = "placing"
                         /\ UNCHANGED <<bot_op, bot_result>>
    /\ UNCHANGED <<app_is_running, loop_pc, cycle_i, cycle_portfolio, cycle_order,
                   cycles_begun, manual_calls, stop_mark>>
    /\ orders_today' = orders_today + (IF manual_pc' = "placing" THEN 1 ELSE 0)
    /\ UNCHANGED exceptBotOrders

(***************************************************************************)
(* manual_trade, lines 251-263: place_order returns; the trade is reported *)
(* and never passed to record_trade.                                       *)
(***************************************************************************)
ManualOrderReturns ==
    /\ manual_pc = "placing"
    /\ \E response \in AnswersTo("place_order") :
         bot_result' = [status |-> "success",
                        message |-> real_order(Signs(credentials), response).status,
                        validated |-> TRUE, approved |-> manual_order.approved,
                        adjusted_quantity |-> manual_order.adjusted_quantity,
                        reason |-> "Trade approved",
                        submitted |-> manual_order.submitted]
    /\ bot_op' = "manual_trade"
    /\ manual_pc' = "idle"
    /\ manual_order' = NoCall
    /\ UNCHANGED <<app_is_running, loop_pc, cycle_i, cycle_portfolio, cycle_order,
                   cycles_begun, manual_calls, stop_mark>>
    /\ UNCHANGED <<riskVars, rateVars>>
    /\ UNCHANGED exceptBot

InitBot ==
    /\ InitBackend
    /\ InitExecution("valid")
    /\ InitTradingBot /\ InitMonitor
    /\ today = 0
    /\ last_reset_date = 0
    /\ daily_trades \in EarlierTrades
    /\ orders_today = daily_trades
    /\ daily_loss = 0
    /\ rm_op = "init"
    /\ rm_call = NoCall
    /\ rm_result = NoCall
    /\ stopped = FALSE
    /\ disabled_seen = FALSE

LoopStep ==
    \/ CycleFetch
    \/ AnalyzeSymbol
    \/ OrderReturns
    \/ PortfolioReturns
    \/ LoopWakes

NextBot ==
    \/ AppStart
    \/ AppStop
    \/ LoopStep
    \/ ManualBegin
    \/ ManualValidate
    \/ ManualOrderReturns

SpecBot == InitBot /\ [][NextBot]_vars

(***************************************************************************)
(* Several start() tasks.  stop() only clears is_running; the task of the   *)
(* loop it stops stays in its sleep until the 30 s are over.  A start()    *)
(* in that time finds is_running false and enters a loop of its own.  The  *)
(* tasks are interchangeable: loop_pc follows the one that is running a    *)
(* cycle or was the last to do so, sleeping_loops counts the others, and   *)
(* the wake-up of one of the others with is_running true is LoopWakes.     *)
(***************************************************************************)
MaxLoops == 2

\* TradingBot.start, called while the previous start() task is in its sleep
AppStartDuringSleep ==
    /\ ~app_is_running
    /\ loop_pc = "sleeping"
    /\ cycles_begun < MaxCycles
    /\ sleeping_loops + 1 < MaxLoops
    /\ app_is_running' = TRUE
    /\ sleeping_loops' = sleeping_loops + 1
    /\ loop_pc' = "cycle"
    /\ cycles_begun' = cycles_begun + 1
    /\ stop_mark' = NoCall
    /\ UNCHANGED <<cycle_i, cycle_portfolio, cycle_order, manual_pc, manual_order,
                   bot_op, bot_result, manual_calls>>
    /\ UNCHANGED <<riskVars, rateVars>>
    /\ UNCHANGED <<backendVars, paperVars, monitorVars, strategyVars, orderVars>>

\* TradingBot.start, line 58: one of the other tasks wakes and finds is_running false
SleeperExits ==
    /\ sleeping_loops > 0
    /\ ~LoopContinues(app_is_running)
    /\ sleeping_loops' = sleeping_loops - 1
    /\ UNCHANGED <<riskVars, rateVars, botVars>>
    /\ UNCHANGED <<backendVars, paperVars, monitorVars, strategyVars, orderVars>>

NextRestart ==
    \/ AppStart
    \/ AppStop
    \/ LoopStep
    \/ AppStartDuringSleep
    \/ SleeperExits

SpecRestart == InitBot /\ [][NextRestart]_vars

\* the start() task on its own
NextLoop ==
    \/ AppStart
    \/ AppStop
    \/ LoopStep

SpecLoop == InitBot /\ [][NextLoop]_vars

\* every HTTP call of the start() task returns, and its sleep ends
SpecLoopFair == SpecLoop /\ WF_vars(LoopStep)

\* manual trades of the app bot and of the backend bot
NextManual ==
    \/ ManualBegin
    \/ ManualValidate
    \/ ManualOrderReturns
    \/ ManualTrade

SpecManual == InitBot /\ [][NextManual]_vars

\* The trading cycles of both bots: the start() task of the app bot and the
\* cycles of the backend bot.  The two bots are separate services that share
\* no state, so every interleaving of their steps is equivalent to one that
\* takes the backend bot's steps first; these are the runs generated.
AppNotStarted == loop_pc = "idle" /\ cycles_begun = 0

NextCycles ==
    \/ AppStart
    \/ LoopStep
    \/ AppNotStarted /\ BotStart
    \/ AppNotStarted /\ ExecuteTradingCycle

SpecCycles == InitBot /\ [][NextCycles]_vars

(***************************************************************************)
(* TradingBot.emergency_stop (app): stop(), then RiskManager.emergency_stop *)
(* which writes daily_loss without running the daily reset.                *)
(***************************************************************************)
AppEmergencyStop ==
    /\ app_is_running' = FALSE
    /\ stop_mark' = [cycles |-> cycles_begun,
                     in_flight |-> loop_pc \in {"placing", "fetching"},
                     recorded |-> FALSE]
    /\ daily_loss' = emergency_stop(daily_loss)
    /\ rm_op' = "emergency_stop"
    /\ rm_call' = NoCall
    /\ rm_result' = [status |-> "emergency_stop_activated", trading_disabled |-> TRUE]
    /\ stopped' = TRUE
    /\ bot_op' = "emergency_stop"
    /\ bot_result' = rm_result'
    /\ UNCHANGED <<today, last_reset_date, daily_trades, disabled_seen>>
    /\ UNCHANGED <<loop_pc, cycle_i, cycle_portfolio, cycle_order, manual_pc,
                   manual_order, cycles_begun, manual_calls>>
    /\ UNCHANGED rateVars
    /\ UNCHANGED exceptBot

\* the emergency stop and the manual trades around it, over several days
NextEmergency ==
    \/ DayRollover
    \/ AppStart
    \/ AppEmergencyStop
    \/ ManualBegin
    \/ ManualValidate
    \/ ManualOrderReturns

SpecEmergency == InitBot /\ [][NextEmergency]_vars

(***************************************************************************)
(* TradingBotMonitor (src/backend/monitoring.py), watching the backend     *)
(* TradingBot.  Time is counted in health-check intervals: the monitoring  *)
(* loop sleeps 300 s after each monitor_health.                            *)
(***************************************************************************)
max_errors == 5
\* timedelta(minutes=30), in health-check intervals of 300 s
restart_threshold == 6

MaxChecks == 12
MaxRestarts == 3

\* restart_bot: stop() if running, then start(); connected is whether start()
\* validated the connection.  m is the monitor's view: running, errors, last,
\* restarts, cap.
restart_bot(m, now, connected) ==
    IF connected
    THEN [m EXCEPT !.running = TRUE, !.last = now, !.errors = 0,
                   !.restarts = @ + 1]
    ELSE [m EXCEPT !.running = FALSE, !.errors = @ + 1,
                   !.restarts = @ + 1,
                   !.cap = @ \/ (m.errors + 1 >= max_errors)]

\* await robinhood_client.get_account(): the client's method is synchronous
\* and returns a dict (or raises), so the await always raises and the
\* except branch counts an error
ErrorsAfterCheck(errors) == errors + 1

\* time_since_success > self.restart_threshold
Unresponsive(now, last) == now - last > restart_threshold

monitor_health(m, now, connected1, connected2) ==
    IF ~m.running
    THEN m
    ELSE LET m1 == IF Unresponsive(now, m.last)
                   THEN restart_bot(m, now, connected1) ELSE m
             m2 == [m1 EXCEPT !.errors = ErrorsAfterCheck(m1.errors),
                              !.cap = @ \/ (ErrorsAfterCheck(m1.errors) >= max_errors)]
         IN  IF m2.errors >= max_errors
             THEN restart_bot(m2, now, connected2)
             ELSE m2

\* one pass of the monitoring loop: monitor_health, then the 300 s sleep
MonitorHealth ==
    /\ mon_now < MaxChecks
    /\ \E connected1 \in BOOLEAN, connected2 \in BOOLEAN :
        LET m == monitor_health([running |-> is_running, errors |-> error_count,
                                 last |-> last_successful_cycle,
                                 restarts |-> restarts, cap |-> cap_reached],
                                mon_now, connected1, connected2)
        IN  /\ m.restarts <= MaxRestarts
            /\ is_running' = m.running
            /\ error_count' = m.errors
            /\ last_successful_cycle' = m.last
            /\ restarts' = m.restarts
            /\ cap_reached' = m.cap
    /\ mon_now' = mon_now + 1
    /\ bk_op' = "monitor_health"
    /\ bk_call' = NoCall
    /\ bk_result' = NoCall
    /\ UNCHANGED <<bk_now, bk_today, bk_last_reset_date, daily_losses, bk_daily_trades,
                   open_positions, trade_history, last_trade_time, order_log>>
    /\ UNCHANGED exceptMonitor

\* update_last_successful_cycle, called after a successful execute-cycle request
UpdateLastSuccessfulCycle ==
    /\ is_running
    /\ last_successful_cycle' = mon_now
    /\ error_count' = 0
    /\ UNCHANGED <<mon_now, restarts, cap_reached>>
    /\ UNCHANGED backendVars
    /\ UNCHANGED exceptMonitor

NextMonitor ==
    \/ MonitorHealth
    \/ UpdateLastSuccessfulCycle
    \/ BotStart
    \/ BotStop

SpecMonitor == InitBackendSpec /\ [][NextMonitor]_vars

(***************************************************************************)
(* C15: in live mode every HTTP 2xx answer to an order submission yields a *)
(* pending Trade carrying the broker's order id, and every non-2xx answer  *)
(* yields a rejected Trade.                                                *)
(***************************************************************************)
LastLiveRequest(kind) ==
    IF rl_result = NoCall THEN FALSE ELSE rl_result.kind = kind

C15_Http2xxPending ==
    (LastLiveRequest("place_order") /\ rl_result.sent /\ rl_result.response.ok) =>
        IF rl_result.response.status \in 200..299
        THEN rl_result.answer.status = "pending"
             /\ rl_result.answer.id = rl_result.response.id
        ELSE rl_result.answer.status = "rejected"

(***************************************************************************)
(* C16: in live mode a failed portfolio fetch answers with the figures of  *)
(* the most recent successful fetch, and a failed order-status fetch never *)
(* answers pending for an order whose last successful fetch reported a     *)
(* terminal status (filled, cancelled or rejected).                        *)
(***************************************************************************)
FetchFailsAfter(kind) ==
    /\ LastLiveRequest(kind)
    /\ rl_result.answer.fetched
    /\ rl_result' # rl_result
    /\ rl_result'.kind = kind
    /\ ~rl_result'.answer.fetched

C16_FailedFetchKeepsKnownGood ==
    [][ /\ FetchFailsAfter("get_portfolio") =>
             rl_result'.answer.total_value = rl_result.answer.total_value
        /\ (FetchFailsAfter("get_order_status")
             /\ rl_result.answer.status \in {"filled", "cancelled", "rejected"}) =>
             rl_result'.answer.status # "pending" ]_vars

(***************************************************************************)
(* C17: manual_trade always passes through the Risk Gate.  In the app bot  *)
(* and in the backend bot an order is submitted only after validate_trade  *)
(* approved it in the same call, what is submitted is the validated        *)
(* quantity (the app's adjusted_quantity; in the backend the quote amount  *)
(* of the validated quantity), and a vetoed manual trade submits nothing   *)
(* and returns an error carrying the Risk Gate's reason.                   *)
(***************************************************************************)
C17_ManualThroughRiskGate ==
    /\ manual_pc = "placing" =>
         /\ manual_order.approved
         /\ manual_order.submitted = manual_order.adjusted_quantity
    /\ bot_op = "manual_trade" =>
         /\ bot_result.submitted # None =>
              /\ bot_result.approved
              /\ bot_result.submitted = bot_result.adjusted_quantity
         /\ (bot_result.validated /\ ~bot_result.approved) =>
              /\ bot_result.submitted = None
              /\ bot_result.status = "error"
              /\ bot_result.message = bot_result.reason
    /\ bk_op = "manual_trade" =>
         /\ bk_result.submitted # None =>
              /\ bk_result.approved
              /\ bk_result.submitted = (bk_result.quantity * bk_result.price) \div 100
         /\ (bk_result.quantity # None /\ ~bk_result.approved) =>
              /\ bk_result.submitted = None
              /\ bk_result.status = "error"
              /\ bk_result.message = bk_result.reason

\* an approved app manual trade was submitted and a backend manual trade was vetoed
C17_Witness ==
    /\ bot_op = "manual_trade"
    /\ bot_result.status = "success"
    /\ bot_result.submitted = bot_result.adjusted_quantity
    /\ bk_op = "manual_trade"
    /\ bk_result.quantity # None
    /\ ~bk_result.approved
    /\ bk_result.submitted = None

(***************************************************************************)
(* C18: within one trading cycle of the app bot, the validation for a      *)
(* later symbol sees the cash and portfolio value that result from the     *)
(* trade already executed and recorded for an earlier symbol of the same   *)
(* cycle, not the portfolio fetched before that trade.                     *)
(***************************************************************************)
ValidatesAfterTrade ==
    /\ AnalyzeSymbol
    /\ cycle_order # NoCall
    /\ cycle_order.status = "pending"
    /\ rm_op = "record_trade"
    /\ rm_op' = "validate_trade"

C18_LaterSymbolSeesEarlierTrade ==
    [][ (ValidatesAfterTrade /\ cycle_portfolio.fetched
            /\ cycle_order.portfolio_after.fetched) =>
          /\ rm_call'.portfolio.total_value = cycle_order.portfolio_after.total_value
          /\ rm_call'.portfolio.available_cash =
                 cycle_order.portfolio_after.available_cash ]_vars

(***************************************************************************)
(* C19: the daily-counter check-then-increment is serialized.  With        *)
(* exactly one trade slot left under max_trades_per_day, the start() task  *)
(* and a manual trade are never both past validate_trade's trade-count     *)
(* check while neither trade has been counted by record_trade.             *)
(***************************************************************************)
PassedUncounted(pc, order) ==
    IF pc \in {"placing", "fetching"}
    THEN order.trades_seen = max_trades_per_day - 1
    ELSE FALSE

C19_CountCheckSerialized ==
    ~(PassedUncounted(loop_pc, cycle_order) /\ PassedUncounted(manual_pc, manual_order))

(***************************************************************************)
(* C20: stop() only clears a flag that the loop reads between cycles.      *)
(* After stop() the start() task begins no new trading cycle, and an order *)
(* placement in flight when stop() was called is not aborted: the task     *)
(* stays on it until its trade has been recorded, and it is recorded.      *)
(***************************************************************************)
InFlightAtStop ==
    IF stop_mark = NoCall THEN FALSE
    ELSE stop_mark.in_flight /\ ~stop_mark.recorded

RecordedAfterStop ==
    IF stop_mark = NoCall THEN FALSE
    ELSE stop_mark.in_flight /\ stop_mark.recorded

NoCycleAfterStop ==
    IF stop_mark = NoCall THEN TRUE
    ELSE cycles_begun = stop_mark.cycles

ApprovedAfterEmergencyStop ==
    IF stopped /\ rm_op = "validate_trade" THEN rm_result.approved ELSE FALSE

C21_EmergencyStopHolds ==
    /\ [][AppEmergencyStop =>
            (~app_is_running' /\ daily_loss' = DailyLossLimitAmount)]_vars
    /\ []~ApprovedAfterEmergencyStop

(***************************************************************************)
(* C22: the Health Monitor caps restart attempts.  The number of restarts  *)
(* it issues never exceeds max_errors, and once error_count has reached    *)
(* max_errors it issues no further restart.                                *)
(***************************************************************************)
C22_RestartsCapped ==
    /\ [](restarts <= max_errors)
    /\ [][cap_reached => restarts' = restarts]_vars

(***************************************************************************)
(* C23: any two successive trades the backend TradingBot executes on the   *)
(* same symbol are at least min_trade_interval (300 s) apart, whether they *)
(* come from automated cycles or from manual_trade.                        *)
(***************************************************************************)
C23_TradesThrottledPerSymbol ==
    \A s \in BkSymbols :
        order_log[s].gap # None => order_log[s].gap >= min_trade_interval

(***************************************************************************)
(* C24: a failure while handling one symbol (an exception in analysis, a   *)
(* Risk Gate veto, an order rejected or not placed) does not abort the     *)
(* trading cycle: every remaining symbol of the cycle is still processed.  *)
(* In the app bot the for loop leaves a symbol only for the next one; in   *)
(* the backend bot the cycle returns success with every signal processed.  *)
(***************************************************************************)
InSymbolLoop(pc) == pc \in {"analyze", "placing", "fetching"}

C24_FailureDoesNotAbortCycle ==
    /\ [][(InSymbolLoop(loop_pc) /\ cycle_i < Len(BotSymbols))
            => (InSymbolLoop(loop_pc') /\ cycle_i' \in {cycle_i, cycle_i + 1})]_vars
    /\ [](bk_op = "execute_trading_cycle"
            => /\ bk_result.status \in {"success", "stopped"}
               /\ bk_result.processed = bk_result.signals_analyzed)

\* the app cycle is at its second symbol after the order for the first one
\* was rejected, and the backend cycle went through two signals neither of
\* which was executed
C24_Witness ==
    /\ loop_pc = "analyze"
    /\ cycle_i = 2
    /\ cycle_order # NoCall
    /\ cycle_order.status = "rejected"
    /\ bk_op = "execute_trading_cycle"
    /\ bk_result.signals_analyzed = 2
    /\ bk_result.processed = 2
    /\ bk_result.trades_executed = 0

(***************************************************************************)
(* C25: calculate_position_size returns                                    *)
(* min(risk_amount / stop_distance, max_position_value / entry_price) with *)
(* risk_amount = account_balance * max_risk_per_trade and                  *)
(* stop_distance = max(|entry_price - stop_loss_price|, atr *              *)
(* atr_multiplier), for every entry, stop and ATR.  The size is compared   *)
(* where neither the daily loss limit nor the minimum trade amount         *)
(* decides it.                                                             *)
(***************************************************************************)
FlooredDistance(call) ==
    Max(Abs(call.entry_price - call.stop_loss_price), call.atr * atr_multiplier)

RiskSized(call) ==
    Min((((call.account_balance * max_risk_per_trade) \div 100) * 100)
            \div FlooredDistance(call),
        (((call.account_balance * max_position_pct) \div 100) * 100)
            \div call.entry_price)

C25_SizeFromFlooredDistance ==
    bk_op = "calculate_position_size" =>
        /\ bk_result.stop_loss_distance = FlooredDistance(bk_call)
        /\ (/\ bk_call.daily_losses = 0
            /\ FlooredDistance(bk_call) > 0
            /\ (RiskSized(bk_call) * bk_call.entry_price) \div 100 >= bk_min_trade_amount)
           => bk_result.position_size = RiskSized(bk_call)

(***************************************************************************)
(* C26: calculate_position_size never returns a non-zero size whose value  *)
(* (size * entry_price) is below min_trade_amount; where min_trade_amount  *)
(* exceeds max_position_value the size is 0, also when it was first capped *)
(* to max_position_value.                                                  *)
(***************************************************************************)
ReturnedValue == (bk_result.position_size * bk_call.entry_price) \div 100

C26_NoSizeBelowMinTradeAmount ==
    bk_op = "calculate_position_size" =>
        \/ bk_result.position_size = 0
        \/ ReturnedValue >= bk_min_trade_amount

(***************************************************************************)
(* C27: positions are created on trade open, mutated only by trailing-stop *)
(* updates and deleted on trade close: an executed trade on the opposite   *)
(* side that closes a held position removes the symbol from open_positions *)
(* and books its realized loss into daily_losses, and between open and     *)
(* close only the position's stop_loss changes.                            *)
(***************************************************************************)
ClosingTradeExecuted(s) ==
    /\ open_positions[s] # NoPosition
    /\ ~order_log[s].stop_filled
    /\ order_log'[s].stop_filled

OnlyStopLossChanges(s) ==
    (open_positions[s] # NoPosition /\ open_positions'[s] # NoPosition)
        => [open_positions'[s] EXCEPT !.stop_loss = None]
             = [open_positions[s] EXCEPT !.stop_loss = None]

C27_PositionLifecycle ==
    [][\A s \in BkSymbols :
         /\ ClosingTradeExecuted(s) =>
               /\ open_positions'[s] = NoPosition
               /\ daily_losses' = daily_losses
                     + ClosedLoss(open_positions[s], open_positions[s].quantity,
                                  order_log[s].stop_price)
         /\ OnlyStopLossChanges(s)]_vars

(***************************************************************************)
(* C28: in every result approved by the app validate_trade with a positive *)
(* current price, a non-null stop_loss and take_profit satisfy             *)
(* stop_loss < current_price < take_profit for a buy and                   *)
(* take_profit < current_price < stop_loss for a sell.                     *)
(***************************************************************************)
RightSide(signal, stop_loss, current_price, take_profit) ==
    IF signal = "buy"
    THEN /\ stop_loss # None => stop_loss < current_price
         /\ take_profit # None => current_price < take_profit
    ELSE /\ take_profit # None => take_profit < current_price
         /\ stop_loss # None => current_price < stop_loss

C28_StopsOnRightSide ==
    (rm_op = "validate_trade" /\ rm_result.approved /\ rm_call.current_price > 0)
        => RightSide(rm_call.strategy.signal, rm_result.stop_loss,
                     rm_call.current_price, rm_result.take_profit)

(***************************************************************************)
(* C29: get_risk_metrics reports risk_level HIGH exactly when daily_loss   *)
(* is at least 80% of the daily loss limit amount (trading_budget *        *)
(* daily_loss_limit), MEDIUM exactly when it is at least 50% and below 80% *)
(* of it, LOW otherwise, for every configured daily_loss_limit; so the     *)
(* level is HIGH whenever the daily loss limit is reached.                 *)
(***************************************************************************)
\* loss as a percentage of trading_budget * daily_loss_limit, both sides
\* multiplied by 100 * 100
AtLeastPctOfLimit(call, pct) ==
    call.daily_loss * 100 * 100 >= pct * trading_budget * call.daily_loss_limit

BandOf(call) ==
    IF AtLeastPctOfLimit(call, 80) THEN "HIGH"
    ELSE IF AtLeastPctOfLimit(call, 50) THEN "MEDIUM"
    ELSE "LOW"

C29_RiskLevelBands ==
    rm_op = "risk_level" =>
        /\ rm_result.risk_level = BandOf(rm_call)
        /\ rm_result.loss_limit_reached => rm_result.risk_level = "HIGH"

(***************************************************************************)
(* C30: the strength of every signal produced by _combine_signals lies in  *)
(* [0,1], for every technical sub-signal in {-1,0,1}, ML class in {0,1,2}  *)
(* and confidence in [0,1]; it is 0 for hold; buy is chosen only when the  *)
(* weighted score is >= 1.2 and sell only when it is <= 0.8, each only     *)
(* with confidence >= confidence_threshold.                                *)
(***************************************************************************)
CalledScore == WeightedSignal(bk_call.technical_signal, bk_call.ml_signal)

C30_StrengthInUnitInterval ==
    bk_op = "combine_signals" =>
        /\ bk_result.strength >= 0
        /\ bk_result.strength <= 1000
        /\ bk_result.action = "hold" => bk_result.strength = 0
        /\ bk_result.action = "buy" =>
              (CalledScore >= 12 /\ bk_call.ml_confidence >= confidence_threshold)
        /\ bk_result.action = "sell" =>
              (CalledScore <= 8 /\ bk_call.ml_confidence >= confidence_threshold)

(***************************************************************************)
(* C31: signal synthesis is deterministic and has no hidden state: two     *)
(* analyze_market invocations for a symbol with identical inputs return    *)
(* the same action, strength and confidence, whatever was analysed before  *)
(* and whatever time has passed.  Stated for two successive invocations    *)
(* that both have the historical data to compute the indicators from.      *)
(***************************************************************************)
C31_AnalysisDeterministic ==
    [][(/\ bk_op = "analyze_market" /\ bk_op' = "analyze_market"
        /\ bk_call.enough_data /\ bk_call' = bk_call)
         => bk_result' = bk_result]_vars

(***************************************************************************)
(* C32: every authenticated broker request is signed over the message      *)
(* api_key, timestamp, path, method, body concatenated in that order with  *)
(* no separators, and x-timestamp carries the timestamp that was signed;   *)
(* this holds for both clients, so that for the same request both build    *)
(* the same message.  The body is the one the client itself serialised.    *)
(***************************************************************************)
BodyStrings(body) ==
    IF body = NoBody THEN {<<>>} ELSE {py_str(body), json_dumps(body)}

DocumentedMessage(request, body_str) ==
    api_key \o request.timestamp \o request.path \o request.method \o body_str

SignedAsDocumented(op, name, request, headers) ==
    op = name =>
        /\ headers.x_timestamp = request.timestamp
        /\ headers.signed \in { DocumentedMessage(request, body_str) :
                                   body_str \in BodyStrings(request.body) }

C32_SignedMessageLayout ==
    /\ SignedAsDocumented(ex_op, "create_auth_headers", ex_call, ex_result)
    /\ SignedAsDocumented(bk_op, "make_request", bk_call, bk_result)
    /\ (ex_op = "create_auth_headers" /\ bk_op = "make_request" /\ ex_call = bk_call)
         => ex_result.signed = bk_result.signed

(***************************************************************************)
(* C33: at most one trading loop of the app TradingBot is active at any    *)
(* time, for every interleaving of start() and stop(): while is_running    *)
(* is set, no more than one start() task is in its loop.                   *)
(***************************************************************************)
LoopTasks == sleeping_loops + (IF loop_pc = "idle" THEN 0 ELSE 1)

C33_AtMostOneLoop == app_is_running => LoopTasks <= 1

(***************************************************************************)
(* C34: the number of orders a TradingBot submits within one calendar day, *)
(* automated and manual together, never exceeds max_trades_per_day.        *)
(***************************************************************************)
C34_OrdersWithinDailyLimit == orders_today <= max_trades_per_day

(***************************************************************************)
(* C35: whenever get_risk_metrics(portfolio) reports trading_enabled=false, *)
(* validate_trade called next, in the same RiskState and with the same     *)
(* portfolio, returns approved=false for every strategy and symbol.        *)
(***************************************************************************)
C35_DisabledMeansRejected ==
    [][(/\ rm_op = "get_risk_metrics" /\ ~rm_result.trading_enabled
        /\ rm_op' = "validate_trade" /\ rm_call'.portfolio = rm_call.portfolio)
         => ~rm_result'.approved]_vars

(***************************************************************************)
(* C37: every trade approved by validate_trade has a value                 *)
(* adjusted_quantity * current_price of at least min_trade_amount and at   *)
(* most min(15% of the available cash, trading budget); an approved buy    *)
(* never costs more than the available cash.                               *)
(***************************************************************************)
ApprovedValue == (rm_result.adjusted_quantity * rm_call.current_price) \div 100

C37_ApprovedValueWithinBounds ==
    (rm_op = "validate_trade" /\ rm_result.approved)
        => /\ ApprovedValue >= min_trade_amount
           /\ ApprovedValue <= MaxTradeValue(rm_call.portfolio)
           /\ rm_call.strategy.signal = "buy"
                => ApprovedValue <= rm_call.portfolio.available_cash

(***************************************************************************)
(* C38: approval of a sell does not depend on the available cash: when the *)
(* symbol is held in sufficient quantity and no daily limit or confidence  *)
(* floor is hit, the sell is approved, also with no cash at all.           *)
(***************************************************************************)
SellOfHeldPosition ==
    /\ rm_op = "validate_trade"
    /\ rm_call.strategy.signal = "sell"
    /\ rm_call.strategy.confidence >= min_confidence
    /\ rm_result.reason \notin {"Daily trade limit reached", "Daily loss limit reached"}
    /\ SuggestedValue(rm_call.strategy, rm_call.portfolio) >= min_trade_amount
    /\ rm_call.portfolio.positions[rm_call.symbol] * rm_call.current_price
          >= SuggestedValue(rm_call.strategy, rm_call.portfolio) * 100

C38_SellIndependentOfCash == SellOfHeldPosition => rm_result.approved

(***************************************************************************)
(* C36: an emergency_stop issued as the first Risk Gate operation after a  *)
(* day rollover, while the daily reset is still pending, disables trading  *)
(* for the new day: the validate_trade, record_trade or get_risk_metrics   *)
(* call that follows it leaves daily_loss at the limit, approves nothing   *)
(* and reports trading disabled.                                           *)
(***************************************************************************)
StoppedBeforeReset == stopped /\ rm_op = "emergency_stop" /\ ResetNeeded

C36_StopSurvivesPendingReset ==
    [][(StoppedBeforeReset /\ today' = today /\ rm_op' # "emergency_stop")
         => /\ daily_loss' >= DailyLossLimitAmount
            /\ rm_op' = "validate_trade" => ~rm_result'.approved
            /\ rm_op' = "get_risk_metrics" => ~rm_result'.trading_enabled]_vars

(***************************************************************************)
(* Claims about the paper ledger as a whole (checked under SpecPaper)      *)
(***************************************************************************)

\* C39: after any sequence of paper orders, filled or rejected, of
\* non-negative quantities and prices, the ledger's cash is not negative and
\* no position quantity is negative.
C39_LedgerNeverNegative ==
    /\ paper_cash >= 0
    /\ \A s \in Symbols : PositionOf(paper_positions, s) >= 0

\* C39 witness: the ledger after a buy that was refused because it cost more
\* than the cash left, while a position of the symbol was already held.
C39_Witness ==
    /\ LastPaperOrder("buy")
    /\ ex_result.status = "rejected"
    /\ ex_call.position_before > 0
    /\ paper_cash < OrderValue(ex_call.quantity, ex_result.filled_price)
    /\ paper_trades = MaxPaperTrades

\* C40: a paper order that comes back rejected leaves cash, every position
\* and total_value as they were before the order, so that the difference
\* record_trade books for it adds nothing to daily_loss.
C40_RejectedLeavesLedger ==
    [][(PlacePaperOrder /\ ~ex_result'.raised /\ ex_result'.status = "rejected")
         => /\ paper_cash' = paper_cash
            /\ paper_positions' = paper_positions
            /\ paper_total_value' = paper_total_value
            /\ RecordedLoss(0, paper_total_value, paper_total_value') = 0]_vars

====
